---- MODULE Spec2Model ----
(***************************************************************************)
(* A model of the PDF accessibility analyzer                                *)
(* (src/pdf_accessibility_analyzer/main.py, class                           *)
(* EnhancedPDFAccessibilityAnalyzer).                                       *)
(*                                                                          *)
(* Conventions of the model:                                                *)
(*   - a text is a sequence of one-character strings;                       *)
(*   - font sizes are in tenths of a point (100 is 10.0pt);                 *)
(*   - y coordinates are in thousandths of a unit (10000 is 10.0), so that  *)
(*     round(y, 2) is a real operation;                                     *)
(*   - colour channels are in thousandths (1000 is 1.0), luminances in      *)
(*     hundred-thousandths;                                                 *)
(*   - a Python dict is a function whose DOMAIN is the set of its keys.     *)
(*                                                                          *)
(* Three specifications share the operators:                                *)
(*   SpecText  the text normalizer applied to bounded input texts,          *)
(*   SpecAgg   the aggregator applied to bounded issue lists,               *)
(*   Spec      analyze() over bounded documents.                            *)
(***************************************************************************)
EXTENDS Integers, Sequences, FiniteSets, TLC

VARIABLES
    \* --- text normalizer harness (SpecText)
    t_in,        \* the input text
    t_dedup,     \* remove_duplicate_chars(t_in), once computed
    t_dedup2,    \* remove_duplicate_chars of that result, once computed
    t_key,       \* normalize_text_for_grouping(t_in), once computed
    t_words,     \* count_words(t_in), once computed
    \* --- the document and the analyzer object (Spec)
    doc,              \* the document: [openable, pages]
    pc,               \* where analyze() stands
    page_no,          \* page_num of the loop of analyze()
    char_idx,         \* the glyph of the loop of analyze_page()
    page_issues,      \* analyze_page's local page_issues
    processed_lines,  \* analyze_page's local processed_lines
    line_result,      \* the latest glyph's analyze_text_line_contrast call
    line_cache,       \* self.line_cache
    full_text_cache,  \* self.full_text_cache
    color_issues,     \* self.color_issues
    issues,           \* self.issues
    \* --- aggregator results (SpecAgg), each empty until computed
    summary,            \* group_and_summarize_issues_improved()
    text_page_groups,   \* group_issues_by_text_and_page(self.issues)
    pattern_groups,     \* group_issues_by_text_pattern(self.issues)
    \* --- the command line program (SpecCli) and the report
    cli_pc,         \* where the __main__ block stands; "off" when not run
    file,           \* the file at pdf_path: [exists, readable, pdf_ext]
    report_format,  \* args.format
    exit_code,      \* the exit status of the process, once it has exited
    report,         \* the report generated last, once there is one
    \* --- the GitHub API tests (SpecTests)
    test_name,      \* the test method that runs; "none" when none does
    test_pc,        \* where the test method stands; "off" when none runs
    run_teardown,   \* self.run_teardown, once setup() has set it
    http_response,  \* the response of the latest request, once there is one
    requests_log,   \* the requests issued so far: <<method, status>>
    repo_exists     \* the test repository exists on the server

textVars == <<t_in, t_dedup, t_dedup2, t_key, t_words>>
aggVars == <<summary, text_page_groups, pattern_groups>>
pageVars == <<page_issues, processed_lines, line_result, line_cache, full_text_cache>>
docVars == <<doc, pc, page_no, char_idx, pageVars, color_issues>>
cliVars == <<cli_pc, file, report_format, exit_code>>
testVars ==
    <<test_name, test_pc, run_teardown, http_response, requests_log,
      repo_exists>>
vars == <<textVars, docVars, docVars, issues, aggVars, cliVars, report, testVars>>

\* A result is held as a sequence: empty while not computed, <<v>> once v is.
None == <<>>
Some(v) == <<v>>

(***************************************************************************)
(* Bounds of the model                                                      *)
(***************************************************************************)
\* longest input text over TextAlphabet
MaxLen == 4
\* longest input text over RepAlphabet (repeated-pattern texts)
MaxRepLen == 8
\* longest issue list handed to the aggregator
MaxIssues == 3
\* most glyphs on a page built from GlyphStyles
MaxGlyphs == 2
\* most pages of a document built from SamplePages
MaxPages == 3
\* most glyphs of the one-line pages of GrayLineDocs
MaxLineGlyphs == 3
\* analyze() is called again while self.issues holds fewer issues than this
MaxFound == 4
\* the model's length of the 'issues' array of the JSON report, in place of
\* the 1000 of issues_dict[:1000]
IssuesInJson == 2
\* the model's length of the 'color_issues' array of the JSON report, in
\* place of the 100 of self.color_issues[:100]
ColorIssuesInJson == 1

(***************************************************************************)
(* Program constants                                                        *)
(***************************************************************************)
\* group_issues_by_text_and_page skips keys shorter than this
MinTextPageKeyLen == 3
\* group_issues_by_text_pattern skips keys shorter than this
MinPatternKeyLen == 5
\* group_issues_by_text_pattern truncates keys longer than this
KeyBudget == 50
\* MIN_FONT_SIZE and MIN_HEADING_SIZE, in tenths of a point
MIN_FONT_SIZE == 120
MIN_HEADING_SIZE == 140
\* MIN_CONTRAST_RATIO and MIN_CONTRAST_LARGE, in tenths
MIN_CONTRAST_RATIO == 45
MIN_CONTRAST_LARGE == 30
\* the sizes of the WCAG large-text rule, in tenths of a point
LARGE_SIZE == 180
LARGE_BOLD_SIZE == 140
\* get_text_line's default tolerance, in thousandths
Tolerance == 2000

(***************************************************************************)
(* Characters                                                               *)
(***************************************************************************)
\* str.isspace() on one character
IsSpace(c) == c = " "

\* the characters str.rstrip('.,;:!?') removes
IsTrailPunct(c) == c \in {".", ",", ";", ":", "!", "?"}

\* the regex class \w (re.UNICODE): letters, digits, underscore
IsWordChar(c) == ~IsSpace(c) /\ ~IsTrailPunct(c) /\ c # "-"

\* str.lower() on one character
LowerChar(c) ==
    CASE c = "A" -> "a"
      [] c = "B" -> "b"
      [] c = "W" -> "w"
      [] OTHER -> c

\* str.lower()
Lower(text) == [i \in 1..Len(text) |-> LowerChar(text[i])]

RECURSIVE LStrip(_)
\* str.lstrip(): leading whitespace removed
LStrip(text) ==
    IF text # <<>> /\ IsSpace(Head(text)) THEN LStrip(Tail(text)) ELSE text

RECURSIVE RStrip(_)
\* str.rstrip(): trailing whitespace removed
RStrip(text) ==
    IF text # <<>> /\ IsSpace(text[Len(text)])
    THEN RStrip(SubSeq(text, 1, Len(text) - 1))
    ELSE text

\* str.strip()
Strip(text) == LStrip(RStrip(text))

RECURSIVE RStripPunct(_)
\* str.rstrip('.,;:!?')
RStripPunct(text) ==
    IF text # <<>> /\ IsTrailPunct(text[Len(text)])
    THEN RStripPunct(SubSeq(text, 1, Len(text) - 1))
    ELSE text

RECURSIVE SplitFrom(_, _, _)
\* str.split(): the maximal runs of non-whitespace characters, in order.
\* i is the scan position and cur the word being read.
SplitFrom(text, i, cur) ==
    IF i > Len(text)
    THEN IF cur = <<>> THEN <<>> ELSE <<cur>>
    ELSE IF IsSpace(text[i])
         THEN IF cur = <<>>
              THEN SplitFrom(text, i + 1, <<>>)
              ELSE <<cur>> \o SplitFrom(text, i + 1, <<>>)
         ELSE SplitFrom(text, i + 1, Append(cur, text[i]))

Split(text) == SplitFrom(text, 1, <<>>)

RECURSIVE JoinSpace(_)
\* ' '.join(words)
JoinSpace(words) ==
    IF words = <<>> THEN <<>>
    ELSE IF Len(words) = 1 THEN words[1]
    ELSE words[1] \o <<" ">> \o JoinSpace(Tail(words))

(***************************************************************************)
(* Text Normalizer                                                          *)
(***************************************************************************)
RECURSIVE SkipRun(_, _, _)
\* the inner while loop of remove_duplicate_chars: the first j >= from
\* with text[j] # text[i], or Len(text) + 1
SkipRun(text, i, j) ==
    IF j <= Len(text) /\ text[j] = text[i] THEN SkipRun(text, i, j + 1) ELSE j

RECURSIVE CollapseFrom(_, _)
\* the outer while loop of remove_duplicate_chars, from position i
CollapseFrom(text, i) ==
    IF i > Len(text) THEN <<>>
    ELSE <<text[i]>> \o CollapseFrom(text, SkipRun(text, i, i + 1))

\* the mirror check of remove_duplicate_chars without the halving
NoMirrorHalving(cleaned) == cleaned

\* lines 253-264: an even-length text whose halves are equal is halved
MirrorHalve(cleaned) ==
    IF Len(cleaned) % 2 = 0
    THEN LET half == Len(cleaned) \div 2
             first_half == SubSeq(cleaned, 1, half)
             second_half == SubSeq(cleaned, half + 1, Len(cleaned))
         IN IF first_half = second_half THEN first_half ELSE cleaned
    ELSE cleaned

remove_duplicate_chars(text) ==
    IF Len(text) < 2 THEN text
    ELSE MirrorHalve(CollapseFrom(text, 1))

\* re.findall(r'\b\w+\b', text): the maximal runs of word characters
WordStarts(text) ==
    {i \in 1..Len(text) :
        IsWordChar(text[i]) /\ (i = 1 \/ ~IsWordChar(text[i - 1]))}

count_words(text) ==
    IF text = <<>> \/ Strip(text) = <<>> THEN 0
    ELSE LET normalized == remove_duplicate_chars(Strip(text))
         IN IF normalized = <<>> THEN 0
            ELSE Cardinality(WordStarts(normalized))

normalize_text_for_grouping(text) ==
    IF text = <<>> THEN text
    ELSE RStripPunct(Lower(JoinSpace(Split(remove_duplicate_chars(text)))))

(***************************************************************************)
(* Python dicts                                                             *)
(***************************************************************************)
EmptyDict == [k \in {} |-> 0]

\* d[k] of a defaultdict whose factory gives default
DictGet(d, k, default) == IF k \in DOMAIN d THEN d[k] ELSE default

\* d[k] = v
DictPut(d, k, v) == [x \in (DOMAIN d) \cup {k} |-> IF x = k THEN v ELSE d[x]]

RECURSIVE SumOver(_, _)
\* sum(f[k] for k in keys), f a function to the integers
SumOver(keys, f) ==
    IF keys = {} THEN 0
    ELSE LET k == CHOOSE x \in keys : TRUE
         IN f[k] + SumOver(keys \ {k}, f)

(***************************************************************************)
(* AccessibilityIssue and the Aggregator                                    *)
(***************************************************************************)
Severities == {"high", "medium", "low"}

\* issue_type values: 'Контрастность', 'Размер шрифта', 'Читаемость шрифта'
IssueTypes == {"Contrast", "FontSize", "FontReadability"}

\* the factories of the three defaultdicts of the summary
NewTypeSeverity ==
    [high |-> [places |-> 0, words |-> 0],
     medium |-> [places |-> 0, words |-> 0],
     low |-> [places |-> 0, words |-> 0]]

NewType == [total_places |-> 0, total_words |-> 0, pages_affected |-> {}]

NewSeverity == [places |-> 0, words |-> 0, types |-> EmptyDict]

NewPlacesWords == [places |-> 0, words |-> 0]

EmptySummary ==
    [by_type_severity |-> EmptyDict,
     by_type |-> EmptyDict,
     by_severity |-> EmptyDict,
     overall |-> [total_places |-> 0,
                  total_words |-> 0,
                  pages_with_issues |-> {},
                  types_distribution |-> EmptyDict,
                  severity_distribution |-> EmptyDict]]

\* the by_severity update that leaves the words of the type out
UpdateBySeverityNoTypeWords(by_severity, issue, word_count) ==
    LET g == DictGet(by_severity, issue.severity, NewSeverity)
        t == DictGet(g.types, issue.issue_type, NewPlacesWords)
    IN DictPut(by_severity, issue.severity,
               [places |-> g.places + 1,
                words |-> g.words + word_count,
                types |-> DictPut(g.types, issue.issue_type,
                                  [places |-> t.places + 1,
                                   words |-> t.words])])

\* lines 569-573: by_severity[issue.severity] updated for one issue
UpdateBySeverity(by_severity, issue, word_count) ==
    LET g == DictGet(by_severity, issue.severity, NewSeverity)
        t == DictGet(g.types, issue.issue_type, NewPlacesWords)
    IN DictPut(by_severity, issue.severity,
               [places |-> g.places + 1,
                words |-> g.words + word_count,
                types |-> DictPut(g.types, issue.issue_type,
                                  [places |-> t.places + 1,
                                   words |-> t.words + word_count])])

\* the by_type update that counts a type once per page, not once per issue
ByTypeOncePerPage(by_type, issue, word_count) ==
    LET g == DictGet(by_type, issue.issue_type, NewType)
    IN DictPut(by_type, issue.issue_type,
               [total_places |-> IF issue.page \in g.pages_affected
                                 THEN g.total_places ELSE g.total_places + 1,
                total_words |-> g.total_words + word_count,
                pages_affected |-> g.pages_affected \cup {issue.page}])

\* lines 563-566: by_type[issue.issue_type] updated for one issue
UpdateByType(by_type, issue, word_count) ==
    LET g == DictGet(by_type, issue.issue_type, NewType)
    IN DictPut(by_type, issue.issue_type,
               [total_places |-> g.total_places + 1,
                total_words |-> g.total_words + word_count,
                pages_affected |-> g.pages_affected \cup {issue.page}])

\* lines 558-560: by_type_severity[issue.issue_type] updated for one issue
UpdateByTypeSeverity(by_type_severity, issue, word_count) ==
    LET g == DictGet(by_type_severity, issue.issue_type, NewTypeSeverity)
        c == g[issue.severity]
    IN DictPut(by_type_severity, issue.issue_type,
               [g EXCEPT ![issue.severity] =
                   [places |-> c.places + 1, words |-> c.words + word_count]])

\* lines 576-580: the overall statistics updated for one issue
UpdateOverall(overall, issue, word_count) ==
    [total_places |-> overall.total_places + 1,
     total_words |-> overall.total_words + word_count,
     pages_with_issues |-> overall.pages_with_issues \cup {issue.page},
     types_distribution |->
         DictPut(overall.types_distribution, issue.issue_type,
                 DictGet(overall.types_distribution, issue.issue_type, 0) + 1),
     severity_distribution |->
         DictPut(overall.severity_distribution, issue.severity,
                 DictGet(overall.severity_distribution, issue.severity, 0) + 1)]

\* lines 553-580: the loop body of group_and_summarize_issues_improved
SummarizeIssue(sm, issue) ==
    LET word_count == count_words(issue.text)
    IN [by_type_severity |->
            UpdateByTypeSeverity(sm.by_type_severity, issue, word_count),
        by_type |-> UpdateByType(sm.by_type, issue, word_count),
        by_severity |-> UpdateBySeverity(sm.by_severity, issue, word_count),
        overall |-> UpdateOverall(sm.overall, issue, word_count)]

RECURSIVE SummarizeFrom(_, _, _)
SummarizeFrom(issue_list, i, sm) ==
    IF i > Len(issue_list) THEN sm
    ELSE SummarizeFrom(issue_list, i + 1, SummarizeIssue(sm, issue_list[i]))

group_and_summarize_issues_improved(issue_list) ==
    SummarizeFrom(issue_list, 1, EmptySummary)

RECURSIVE SortedDescending(_)
\* sorted(list(s), reverse=True)
SortedDescending(s) ==
    IF s = {} THEN <<>>
    ELSE LET top == CHOOSE x \in s : \A y \in s : y <= x
         IN <<top>> \o SortedDescending(s \ {top})

RECURSIVE SortedList(_)
\* sorted(list(s)) of a set of numbers
SortedList(s) ==
    IF s = {} THEN <<>>
    ELSE LET least == CHOOSE x \in s : \A y \in s : x <= y
         IN <<least>> \o SortedList(s \ {least})

\* items[:n]
Take(items, n) == SubSeq(items, 1, IF n < Len(items) THEN n ELSE Len(items))

\* the 'summary' of the JSON report
JsonSummary(sm) ==
    [total_issues |-> sm.overall.total_places,
     total_words |-> sm.overall.total_words,
     pages_affected |-> SortedList(sm.overall.pages_with_issues),
     by_severity |->
         [sev \in DOMAIN sm.by_severity |->
             [places |-> sm.by_severity[sev].places,
              words |-> sm.by_severity[sev].words]],
     by_type |->
         [issue_type \in DOMAIN sm.by_type |->
             [total_places |-> sm.by_type[issue_type].total_places,
              total_words |-> sm.by_type[issue_type].total_words,
              pages_affected |->
                  SortedList(sm.by_type[issue_type].pages_affected)]]]

\* generate_json_report(): the report without 'document', 'document_path'
\* and 'analysis_date'; asdict() of an issue is the issue's record
generate_json_report(issue_list, color_issues_) ==
    [summary |-> JsonSummary(group_and_summarize_issues_improved(issue_list)),
     issues |-> Take(issue_list, IssuesInJson),
     color_issues |-> Take(color_issues_, ColorIssuesInJson)]

\* str.rfind(' '), 0-based, -1 when there is none
RFindSpace(text) ==
    LET at == {i \in 1..Len(text) : text[i] = " "}
    IN IF at = {} THEN -1 ELSE (CHOOSE i \in at : \A j \in at : j <= i) - 1

Ellipsis == <<".", ".", ".">>

\* truncate_text_smart(text, max_length); last_space > max_length * 0.7
truncate_text_smart(text, max_length) ==
    IF Len(text) <= max_length THEN text
    ELSE LET truncated == SubSeq(text, 1, max_length)
             last_space == RFindSpace(truncated)
         IN IF last_space * 10 > max_length * 7
            THEN SubSeq(truncated, 1, last_space) \o Ellipsis
            ELSE truncated \o Ellipsis

\* the factory of group_issues_by_text_and_page's defaultdict
NewTextPageGroup ==
    [pages |-> EmptyDict, total_count |-> 0, first_issue |-> None,
     issue_types |-> {}, descriptions |-> {}]

\* lines 744-759: one issue added to its group
TextPageAdd(text_groups, issue) ==
    LET normalized_text == normalize_text_for_grouping(issue.text)
        group == DictGet(text_groups, normalized_text, NewTextPageGroup)
    IN IF Len(normalized_text) < MinTextPageKeyLen THEN text_groups
       ELSE DictPut(text_groups, normalized_text,
                [pages |-> DictPut(group.pages, issue.page,
                               Append(DictGet(group.pages, issue.page, <<>>), issue)),
                 total_count |-> group.total_count + 1,
                 first_issue |-> IF group.first_issue = None
                                 THEN Some(issue) ELSE group.first_issue,
                 issue_types |-> group.issue_types \cup {issue.issue_type},
                 descriptions |-> group.descriptions \cup {issue.description}])

RECURSIVE TextPageFrom(_, _, _)
TextPageFrom(issue_list, i, text_groups) ==
    IF i > Len(issue_list) THEN text_groups
    ELSE TextPageFrom(issue_list, i + 1, TextPageAdd(text_groups, issue_list[i]))

group_issues_by_text_and_page(issue_list) ==
    TextPageFrom(issue_list, 1, EmptyDict)

\* the key group_issues_by_text_pattern files an issue text under
PatternKey(text) ==
    LET text_key == normalize_text_for_grouping(text)
    IN IF Len(text_key) > KeyBudget
       THEN truncate_text_smart(text_key, KeyBudget) ELSE text_key

\* the factory of group_issues_by_text_pattern's defaultdict
NewPatternGroup ==
    [pages |-> {}, issues |-> <<>>, total_words |-> 0, issue_types |-> {},
     severities |-> EmptyDict, descriptions |-> {}, font_info |-> {}]

\* lines 778-801: one issue added to its group
PatternAdd(text_groups, issue) ==
    LET text_key == PatternKey(issue.text)
        group == DictGet(text_groups, text_key, NewPatternGroup)
    IN IF Len(normalize_text_for_grouping(issue.text)) < MinPatternKeyLen
       THEN text_groups
       ELSE DictPut(text_groups, text_key,
                [pages |-> group.pages \cup {issue.page},
                 issues |-> Append(group.issues, issue),
                 total_words |-> group.total_words + count_words(text_key),
                 issue_types |-> group.issue_types \cup {issue.issue_type},
                 severities |-> DictPut(group.severities, issue.severity,
                                   DictGet(group.severities, issue.severity, 0) + 1),
                 descriptions |-> group.descriptions \cup {issue.description},
                 font_info |-> IF issue.font_name # <<>> /\ issue.font_size # 0
                               THEN group.font_info \cup
                                        {<<issue.font_name, issue.font_size>>}
                               ELSE group.font_info])

RECURSIVE PatternFrom(_, _, _)
PatternFrom(issue_list, i, text_groups) ==
    IF i > Len(issue_list) THEN text_groups
    ELSE PatternFrom(issue_list, i + 1, PatternAdd(text_groups, issue_list[i]))

\* sorted(pages)
RECURSIVE SortedSeq(_)
SortedSeq(S) ==
    IF S = {} THEN <<>>
    ELSE LET m == CHOOSE x \in S : \A y \in S : x <= y
         IN <<m>> \o SortedSeq(S \ {m})

\* the filter of line 806 with the occurrence threshold at 1
KeepPatternGroupAny(data) ==
    Cardinality(data.pages) >= 2 \/ Len(data.issues) >= 1

\* the filter of line 806 with "and" in place of "or"
KeepPatternGroupBoth(data) ==
    Cardinality(data.pages) >= 2 /\ Len(data.issues) >= 3

\* line 806: a group is reported if it is on 2 pages or occurs 3 times
KeepPatternGroup(data) ==
    Cardinality(data.pages) >= 2 \/ Len(data.issues) >= 3

\* lines 804-813: the groups kept, with their sorted pages and totals
group_issues_by_text_pattern(issue_list) ==
    LET text_groups == PatternFrom(issue_list, 1, EmptyDict)
        kept == {k \in DOMAIN text_groups : KeepPatternGroup(text_groups[k])}
    IN [k \in kept |->
           [pages |-> text_groups[k].pages,
            issues |-> text_groups[k].issues,
            total_words |-> text_groups[k].total_words,
            issue_types |-> text_groups[k].issue_types,
            severities |-> text_groups[k].severities,
            descriptions |-> text_groups[k].descriptions,
            font_info |-> text_groups[k].font_info,
            pages_sorted |-> SortedSeq(text_groups[k].pages),
            total_pages |-> Cardinality(text_groups[k].pages),
            total_issues |-> Len(text_groups[k].issues)]]

(***************************************************************************)
(* Color Model                                                              *)
(***************************************************************************)
\* A raw colour is [kind, v]: kind "none" (None), "scalar" (a number, v of
\* length 1), "tuple" (a tuple or list of numbers v) or "other" (a value of
\* any other type, such as a string).  Channels are in thousandths.
RawNone == [kind |-> "none", v |-> <<>>]
RawOther == [kind |-> "other", v |-> <<>>]
RawScalar(x) == [kind |-> "scalar", v |-> <<x>>]
RawTuple(t) == [kind |-> "tuple", v |-> t]

Black == <<0, 0, 0>>
White == <<1000, 1000, 1000>>

\* normalize_color, the CMYK branch reading the tuple as (c, m, k, y)
NormalizeColorSwapped(color) ==
    IF color.kind = "tuple" /\ Len(color.v) = 4
    THEN <<((1000 - color.v[1]) * (1000 - color.v[3])) \div 1000,
           ((1000 - color.v[2]) * (1000 - color.v[3])) \div 1000,
           ((1000 - color.v[4]) * (1000 - color.v[3])) \div 1000>>
    ELSE Black

normalize_color(color) ==
    IF color.kind = "scalar" THEN <<color.v[1], color.v[1], color.v[1]>>
    ELSE IF color.kind = "tuple"
    THEN IF Len(color.v) = 1 THEN <<color.v[1], color.v[1], color.v[1]>>
         ELSE IF Len(color.v) = 3 THEN <<color.v[1], color.v[2], color.v[3]>>
         ELSE IF Len(color.v) = 4
         THEN <<((1000 - color.v[1]) * (1000 - color.v[4])) \div 1000,
                ((1000 - color.v[2]) * (1000 - color.v[4])) \div 1000,
                ((1000 - color.v[3]) * (1000 - color.v[4])) \div 1000>>
         ELSE Black
    ELSE Black

\* ((channel + 0.055) / 1.055) ** 2.4 in hundred-thousandths, for the
\* channel values (thousandths) the model's colours use
GammaTable ==
    [c \in {250, 300, 400, 500, 600, 700, 750, 800, 900, 1000, 1200} |->
        CASE c = 250 -> 5088 [] c = 300 -> 7324 [] c = 400 -> 13287
          [] c = 500 -> 21404 [] c = 600 -> 31855 [] c = 700 -> 44799
          [] c = 750 -> 52252 [] c = 800 -> 60383 [] c = 900 -> 78741
          [] c = 1000 -> 100000 [] c = 1200 -> 151683]

\* srgb_to_linear: thousandths to hundred-thousandths; the threshold
\* 0.03928 is 39.28 thousandths
srgb_to_linear(channel) ==
    IF channel * 100 <= 3928 THEN (channel * 10000) \div 1292
    ELSE GammaTable[channel]

\* the relative luminance in hundred-thousandths
calculate_luminance(color) ==
    (2126 * srgb_to_linear(color[1]) + 7152 * srgb_to_linear(color[2])
        + 722 * srgb_to_linear(color[3])) \div 10000

Max2(a, b) == IF a >= b THEN a ELSE b
Min2(a, b) == IF a <= b THEN a ELSE b

\* calculate_contrast_ratio with 0.5 in place of 0.05
ContrastRatioWideFlare(color1, color2) ==
    LET l1 == calculate_luminance(color1)
        l2 == calculate_luminance(color2)
    IN <<Max2(l1, l2) + 50000, Min2(l1, l2) + 50000>>

\* the contrast ratio as the fraction <<numerator, denominator>> of
\* (lighter + 0.05) / (darker + 0.05), both in hundred-thousandths; the
\* division by zero raises and the except clause returns 1.0
calculate_contrast_ratio(color1, color2) ==
    LET l1 == calculate_luminance(color1)
        l2 == calculate_luminance(color2)
    IN IF Min2(l1, l2) + 5000 = 0 THEN <<1, 1>>
       ELSE <<Max2(l1, l2) + 5000, Min2(l1, l2) + 5000>>

\* ratio < tenths / 10, the denominator of the ratio not being zero
RatioBelow(ratio, tenths) ==
    IF ratio[2] > 0 THEN ratio[1] * 10 < tenths * ratio[2]
    ELSE ratio[1] * 10 > tenths * ratio[2]

\* f"{ratio:.1f}" as a number of tenths
RatioTenths(ratio) == (20 * ratio[1] + ratio[2]) \div (2 * ratio[2])

\* colorsys.rgb_to_hsv: [hn, hd, sn, sd, v] with h = hn / hd, s = sn / sd
rgb_to_hsv(color) ==
    LET r == color[1]
        g == color[2]
        b == color[3]
        maxc == Max2(r, Max2(g, b))
        minc == Min2(r, Min2(g, b))
        range == maxc - minc
        h6 == IF r = maxc THEN g - b
              ELSE IF g = maxc THEN 2 * range + (b - r)
              ELSE 4 * range + (r - g)
    IN IF minc = maxc
       THEN [hn |-> 0, hd |-> 1, sn |-> 0, sd |-> 1, v |-> maxc]
       ELSE [hn |-> IF h6 < 0 THEN h6 + 6 * range ELSE h6,
             hd |-> 6 * range, sn |-> range, sd |-> maxc, v |-> maxc]

\* the name of no colour bucket
NoColorName == ""

\* identify_problematic_color; the names are 'светло-зеленый', 'зеленый',
\* 'светло-красный', 'красный', 'светло-синий', 'синий', 'желтый',
\* 'оранжевый', 'серый'
identify_problematic_color(color) ==
    LET hsv == rgb_to_hsv(color)
        HGe(p) == hsv.hn * 100 >= p * hsv.hd
        HLe(p) == hsv.hn * 100 <= p * hsv.hd
        SGt(p) == hsv.sn * 100 > p * hsv.sd
        SLt(p) == hsv.sn * 100 < p * hsv.sd
        v == hsv.v
        gray == IF SLt(10) /\ 300 <= v /\ v <= 700 THEN "gray" ELSE NoColorName
    IN IF HGe(20) /\ HLe(40)
       THEN IF SGt(30) /\ v > 400
            THEN IF v > 700 THEN "light-green" ELSE "green"
            ELSE gray
       ELSE IF HLe(5) \/ HGe(95)
       THEN IF SGt(30) /\ v > 400
            THEN IF v > 700 THEN "light-red" ELSE "red"
            ELSE gray
       ELSE IF HGe(55) /\ HLe(75)
       THEN IF SGt(30) /\ v > 400
            THEN IF v > 700 THEN "light-blue" ELSE "blue"
            ELSE gray
       ELSE IF HGe(5) /\ HLe(15)
       THEN IF SGt(30) /\ v > 600
            THEN IF v > 800 THEN "yellow" ELSE "orange"
            ELSE gray
       ELSE gray

\* extract_background_color: always white
extract_background_color(x, y) == White

(***************************************************************************)
(* Font names (sequences of characters) and the Heuristic Classifiers       *)
(***************************************************************************)
UpperLetters ==
    <<"A", "B", "C", "D", "E", "F", "G", "H", "I", "J", "K", "L", "M">>
    \o <<"N", "O", "P", "Q", "R", "S", "T", "U", "V", "W", "X", "Y", "Z">>
LowerLetters ==
    <<"a", "b", "c", "d", "e", "f", "g", "h", "i", "j", "k", "l", "m">>
    \o <<"n", "o", "p", "q", "r", "s", "t", "u", "v", "w", "x", "y", "z">>

\* str.lower() on one character of a font name
LowerLetter(c) ==
    IF \E i \in 1..Len(UpperLetters) : UpperLetters[i] = c
    THEN LowerLetters[CHOOSE i \in 1..Len(UpperLetters) : UpperLetters[i] = c]
    ELSE c

LowerName(name) == [i \in 1..Len(name) |-> LowerLetter(name[i])]

\* sub in text
Contains(text, sub) ==
    \E i \in 1..(Len(text) - Len(sub) + 1) :
        SubSeq(text, i, i + Len(sub) - 1) = sub

RECURSIVE Remove(_, _)
\* text.replace(sub, ''), sub not empty
Remove(text, sub) ==
    IF Len(text) < Len(sub) THEN text
    ELSE IF SubSeq(text, 1, Len(sub)) = sub
    THEN Remove(SubSeq(text, Len(sub) + 1, Len(text)), sub)
    ELSE <<text[1]>> \o Remove(Tail(text), sub)

\* text.split('+')[-1]
AfterLastPlus(text) ==
    LET at == {i \in 1..Len(text) : text[i] = "+"}
    IN IF at = {} THEN text
       ELSE SubSeq(text, (CHOOSE i \in at : \A j \in at : j <= i) + 1, Len(text))

S_Bold == <<"B", "o", "l", "d">>
S_BoldItalic == <<"B", "o", "l", "d", "I", "t", "a", "l", "i", "c">>
S_Black == <<"B", "l", "a", "c", "k">>
S_Heavy == <<"H", "e", "a", "v", "y">>
S_DashBold == <<"-", "B", "o", "l", "d">>
S_bold == <<"b", "o", "l", "d">>
S_DashItalic == <<"-", "I", "t", "a", "l", "i", "c">>
S_Italic == <<"I", "t", "a", "l", "i", "c">>
S_MT == <<"M", "T">>
S_PS == <<"P", "S">>

F_Arial == <<"A", "r", "i", "a", "l">>
F_ArialBold == <<"A", "r", "i", "a", "l", "-", "B", "o", "l", "d">>
F_ArialBlack == <<"A", "r", "i", "a", "l", "-", "B", "l", "a", "c", "k">>
F_Papyrus == <<"P", "a", "p", "y", "r", "u", "s">>
F_Foo == <<"F", "o", "o">>
F_SubsetArialMT == <<"A", "B", "C", "D", "E", "F", "+", "A", "r", "i", "a", "l", "M", "T">>
F_CourierArial == <<"C", "o", "u", "r", "i", "e", "r", "-", "A", "r", "i", "a", "l">>

ACCESSIBLE_FONTS ==
    {<<"A", "r", "i", "a", "l">>,
     <<"H", "e", "l", "v", "e", "t", "i", "c", "a">>,
     <<"V", "e", "r", "d", "a", "n", "a">>,
     <<"T", "a", "h", "o", "m", "a">>,
     <<"C", "a", "l", "i", "b", "r", "i">>,
     <<"G", "e", "o", "r", "g", "i", "a">>,
     <<"T", "i", "m", "e", "s", " ", "N", "e", "w", " ", "R", "o", "m", "a", "n">>,
     <<"L", "u", "c", "i", "d", "a", " ", "S", "a", "n", "s">>,
     <<"T", "r", "e", "b", "u", "c", "h", "e", "t", " ", "M", "S">>,
     <<"O", "p", "e", "n", " ", "S", "a", "n", "s">>,
     <<"R", "o", "b", "o", "t", "o">>,
     <<"L", "a", "t", "o">>,
     <<"M", "o", "n", "t", "s", "e", "r", "r", "a", "t">>,
     <<"L", "i", "b", "e", "r", "a", "t", "i", "o", "n", "S", "a", "n", "s">>,
     <<"L", "i", "b", "e", "r", "a", "t", "i", "o", "n", "S", "e", "r", "i", "f">>,
     <<"D", "e", "j", "a", "V", "u", " ", "S", "a", "n", "s">>,
     <<"D", "e", "j", "a", "V", "u", " ", "S", "e", "r", "i", "f">>}

POOR_READABILITY_FONTS ==
    {<<"C", "o", "m", "i", "c", " ", "S", "a", "n", "s">>,
     <<"P", "a", "p", "y", "r", "u", "s">>,
     <<"B", "r", "u", "s", "h", " ", "S", "c", "r", "i", "p", "t">>,
     <<"J", "o", "k", "e", "r", "m", "a", "n">>,
     <<"C", "h", "i", "l", "l", "e", "r">>,
     <<"C", "u", "r", "l", "y">>,
     <<"O", "l", "d", " ", "E", "n", "g", "l", "i", "s", "h">>,
     <<"G", "o", "t", "h", "i", "c">>,
     <<"C", "o", "u", "r", "i", "e", "r">>,
     <<"C", "o", "n", "s", "o", "l", "a", "s">>,
     <<"M", "o", "n", "a", "c", "o">>,
     <<"M", "e", "n", "l", "o">>,
     <<"S", "o", "u", "r", "c", "e", " ", "C", "o", "d", "e", " ", "P", "r", "o">>}

\* the bold terms of is_large_text_by_wcag
BoldTerms == {S_Bold, S_BoldItalic, S_Black, S_Heavy, S_DashBold, S_bold}

\* is_large_text_by_wcag with the bold rule from 16pt
IsLargeFrom16(size_sum, count, font_name) ==
    LET is_bold == \E bold_term \in BoldTerms : Contains(font_name, bold_term)
    IN \/ size_sum >= 180 * count
       \/ size_sum >= 160 * count /\ is_bold

\* is_large_text_by_wcag(font_size, font_name) for font_size = size_sum / count
\* tenths of a point (count is 1 for a glyph's own size)
is_large_text_by_wcag(size_sum, count, font_name) ==
    LET is_bold == \E bold_term \in BoldTerms : Contains(font_name, bold_term)
    IN \/ size_sum >= LARGE_SIZE * count
       \/ size_sum >= LARGE_BOLD_SIZE * count /\ is_bold

normalize_font_name(font_name) ==
    Strip(Remove(Remove(Remove(Remove(Remove(Remove(
        AfterLastPlus(font_name),
        S_DashBold), S_DashItalic), S_Bold), S_Italic), S_MT), S_PS))

\* check_font_readability with the poor-readability set looked at first
CheckReadabilityPoorFirst(font_name) ==
    LET normalized_name == normalize_font_name(font_name)
        low == LowerName(normalized_name)
        acc == {f \in ACCESSIBLE_FONTS : Contains(low, LowerName(f))}
        poor == {f \in POOR_READABILITY_FONTS : Contains(low, LowerName(f))}
    IN IF poor # {}
       THEN [readable |-> FALSE, kind |-> "poor",
             font |-> CHOOSE f \in poor : TRUE]
       ELSE IF acc # {}
       THEN [readable |-> TRUE, kind |-> "accessible",
             font |-> CHOOSE f \in acc : TRUE]
       ELSE [readable |-> FALSE, kind |-> "unknown", font |-> normalized_name]

\* check_font_readability: [readable, kind, font]; kind "accessible" or
\* "poor" with the listed font that matched, "unknown" with the normalized
\* name
check_font_readability(font_name) ==
    LET normalized_name == normalize_font_name(font_name)
        low == LowerName(normalized_name)
        acc == {f \in ACCESSIBLE_FONTS : Contains(low, LowerName(f))}
        poor == {f \in POOR_READABILITY_FONTS : Contains(low, LowerName(f))}
    IN IF acc # {}
       THEN [readable |-> TRUE, kind |-> "accessible",
             font |-> CHOOSE f \in acc : TRUE]
       ELSE IF poor # {}
       THEN [readable |-> FALSE, kind |-> "poor",
             font |-> CHOOSE f \in poor : TRUE]
       ELSE [readable |-> FALSE, kind |-> "unknown", font |-> normalized_name]

(***************************************************************************)
(* Glyph records and the Line Reconstructor                                 *)
(***************************************************************************)
\* A glyph record (a dict of page.chars): id is the position of the dict in
\* page.chars (its identity), has_y0 tells whether the key 'y0' is present.
Glyph(id, text, x0, has_y0, y0, size, fontname, color) ==
    [id |-> id, text |-> text, x0 |-> x0, has_y0 |-> has_y0, y0 |-> y0,
     size |-> size, fontname |-> fontname, color |-> color]

\* char.get('y0', 0)
GetY0(char) == IF char.has_y0 THEN char.y0 ELSE 0

\* round(y, 2) on thousandths, the result in thousandths; a tie is rounded
\* to the even hundredth
Round2(y) ==
    LET q == y \div 10
        r == y % 10
    IN IF r < 5 THEN q * 10
       ELSE IF r > 5 THEN (q + 1) * 10
       ELSE IF q % 2 = 0 THEN q * 10 ELSE (q + 1) * 10

Abs(n) == IF n < 0 THEN -n ELSE n

\* the band test of get_text_line with the tolerance included
InBandInclusive(char, y_position) == Abs(char.y0 - y_position) <= Tolerance

\* line 305: abs(char['y0'] - y_position) < tolerance
InBand(char, y_position) == Abs(char.y0 - y_position) < Tolerance

RECURSIVE InsertByX0(_, _)
\* c placed behind every glyph of sorted whose x0 is not larger (stable)
InsertByX0(sorted, c) ==
    IF sorted = <<>> THEN <<c>>
    ELSE IF Head(sorted).x0 <= c.x0
    THEN <<Head(sorted)>> \o InsertByX0(Tail(sorted), c)
    ELSE <<c>> \o sorted

RECURSIVE SortByX0(_)
\* line_chars.sort(key=lambda c: c['x0'])
SortByX0(chars) ==
    IF chars = <<>> THEN <<>>
    ELSE InsertByX0(SortByX0(SubSeq(chars, 1, Len(chars) - 1)), chars[Len(chars)])

RECURSIVE JoinTexts(_)
\* ''.join([c.get('text', '') for c in line_chars])
JoinTexts(chars) ==
    IF chars = <<>> THEN <<>> ELSE Head(chars).text \o JoinTexts(Tail(chars))

RECURSIVE BandOf(_, _)
\* lines 303-306: the glyphs of chars in the band of y_position, in order
BandOf(chars, y_position) ==
    IF chars = <<>> THEN <<>>
    ELSE IF InBand(Head(chars), y_position)
    THEN <<Head(chars)>> \o BandOf(Tail(chars), y_position)
    ELSE BandOf(Tail(chars), y_position)

EmptyLine == [chars |-> <<>>, text |-> <<>>]

\* get_text_line's cache key with the unrounded y
CacheKeyUnrounded(page_num, y_position) == <<page_num, y_position>>

\* line 300: (id(page), round(y_position, 2)); the page's position in the
\* document stands for its identity
CacheKey(page_num, y_position) == <<page_num, Round2(y_position)>>

\* lines 307-311: the line of the glyphs of a band, sorted, with its text
MakeLine(line_chars) == [chars |-> line_chars, text |-> JoinTexts(line_chars)]

\* lines 313-316: the line is stored in both caches and returned
CacheLine(line_cache_, full_text_cache_, cache_key, line) ==
    [line |-> line,
     line_cache |-> DictPut(line_cache_, cache_key, line),
     full_text_cache |-> DictPut(full_text_cache_, cache_key, line.text)]

\* get_text_line(page, y_position): [line, line_cache, full_text_cache].
\* Reading char['y0'] of a glyph without the key raises, and the except
\* clause returns ([], "") leaving the caches as they are.
get_text_line(line_cache_, full_text_cache_, page_num, chars, y_position) ==
    IF CacheKey(page_num, y_position) \in DOMAIN line_cache_
    THEN [line |-> line_cache_[CacheKey(page_num, y_position)],
          line_cache |-> line_cache_, full_text_cache |-> full_text_cache_]
    ELSE IF \E i \in 1..Len(chars) : ~chars[i].has_y0
    THEN [line |-> EmptyLine,
          line_cache |-> line_cache_, full_text_cache |-> full_text_cache_]
    ELSE CacheLine(line_cache_, full_text_cache_, CacheKey(page_num, y_position),
                   MakeLine(SortByX0(BandOf(chars, y_position))))

(***************************************************************************)
(* Issue Detector                                                           *)
(***************************************************************************)
\* The description of an issue, by its parts.  kind is "regular_text" or
\* "large_text" (Contrast), "text_size" or "heading_size" (FontSize),
\* "poor" or "unknown" (FontReadability); numbers are as the f-strings
\* print them (one decimal, in tenths).
Description(kind, size, minimum, bold, contrast, required, color_name, font) ==
    [kind |-> kind, size |-> size, minimum |-> minimum, bold |-> bold,
     contrast |-> contrast, required |-> required,
     color_name |-> color_name, font |-> font]

Issue(page, x, y, text, issue_type, description, severity, font_name, font_size, color, background_color) ==
    [page |-> page, x |-> x, y |-> y, text |-> text,
     issue_type |-> issue_type, description |-> description,
     severity |-> severity, font_name |-> font_name, font_size |-> font_size,
     color |-> color, background_color |-> background_color]

RECURSIVE SumSizes(_)
\* sum(char.get('size', 12) for char in line_chars)
SumSizes(chars) ==
    IF chars = <<>> THEN 0 ELSE Head(chars).size + SumSizes(Tail(chars))

\* f"{avg_size:.1f}" in tenths of a point
AvgTenths(size_sum, count) == (2 * size_sum + count) \div (2 * count)

\* lines 386-388: the preview of a Contrast issue
ContrastPreview(text) ==
    IF Len(text) > 150 THEN SubSeq(text, 1, 147) \o Ellipsis ELSE text

\* lines 366-371 with the bands one step up (3.0 and 4.0)
ContrastSeverityShifted(contrast_ratio) ==
    IF RatioBelow(contrast_ratio, 30) THEN "high"
    ELSE IF RatioBelow(contrast_ratio, 40) THEN "medium"
    ELSE "low"

\* lines 366-371: the severity of a Contrast issue
ContrastSeverity(contrast_ratio) ==
    IF RatioBelow(contrast_ratio, 20) THEN "high"
    ELSE IF RatioBelow(contrast_ratio, 30) THEN "medium"
    ELSE "low"

\* line 341: the required contrast, always that of regular text
RequiredContrastRegular(is_large_wcag) == MIN_CONTRAST_RATIO

\* line 341: the required contrast of a line
RequiredContrast(is_large_wcag) ==
    IF is_large_wcag THEN MIN_CONTRAST_LARGE ELSE MIN_CONTRAST_RATIO

\* lines 373-402: the Contrast issue of a glyph whose ratio is too low.
\* ln holds the locals of the line: normalized_line_text, size_sum and
\* count (avg_size = size_sum / count), is_bold, is_large_wcag,
\* required_contrast.
ContrastIssue(page_num, char, ln, text_color, bg_color, contrast_ratio, color_name) ==
    Issue(page_num, char.x0, GetY0(char),
          ContrastPreview(ln.normalized_line_text), "Contrast",
          Description(IF ln.is_large_wcag THEN "large_text" ELSE "regular_text",
                      AvgTenths(ln.size_sum, ln.count), 0,
                      ln.is_large_wcag /\ ln.is_bold,
                      RatioTenths(contrast_ratio), ln.required_contrast,
                      color_name, <<>>),
          ContrastSeverity(contrast_ratio),
          char.fontname, char.size, text_color, bg_color)

\* lines 405-418 with the ratio compared with 3.0 in place of 4.5
ColorIssuesBelowLarge(page_num, char, ln, text_color, contrast_ratio, color_name) ==
    IF color_name # NoColorName /\ RatioBelow(contrast_ratio, MIN_CONTRAST_LARGE)
    THEN <<[page |-> page_num, raw_color |-> char.color,
            color |-> text_color, color_name |-> color_name,
            contrast |-> contrast_ratio,
            required |-> ln.required_contrast,
            text_sample |->
                Strip(SubSeq(ln.normalized_line_text, 1,
                             Min2(100, Len(ln.normalized_line_text)))),
            full_text |-> Strip(ln.normalized_line_text),
            position |-> <<char.x0, GetY0(char)>>,
            is_large |-> ln.is_large_wcag,
            font_size |-> char.size]>>
    ELSE <<>>

\* lines 405-418: the entry of self.color_issues of such a glyph, if any
ColorIssues(page_num, char, ln, text_color, contrast_ratio, color_name) ==
    IF color_name # NoColorName /\ RatioBelow(contrast_ratio, MIN_CONTRAST_RATIO)
    THEN <<[page |-> page_num, raw_color |-> char.color,
            color |-> text_color, color_name |-> color_name,
            contrast |-> contrast_ratio,
            required |-> ln.required_contrast,
            text_sample |->
                Strip(SubSeq(ln.normalized_line_text, 1,
                             Min2(100, Len(ln.normalized_line_text)))),
            full_text |-> Strip(ln.normalized_line_text),
            position |-> <<char.x0, GetY0(char)>>,
            is_large |-> ln.is_large_wcag,
            font_size |-> char.size]>>
    ELSE <<>>

\* lines 361-418: the glyph's ratio is compared with the required contrast
ContrastOfRatio(page_num, char, ln, text_color, bg_color, contrast_ratio, color_name) ==
    IF RatioBelow(contrast_ratio, ln.required_contrast)
    THEN [issues |-> <<ContrastIssue(page_num, char, ln, text_color, bg_color,
                                     contrast_ratio, color_name)>>,
          color_issues |-> ColorIssues(page_num, char, ln, text_color,
                                       contrast_ratio, color_name)]
    ELSE [issues |-> <<>>, color_issues |-> <<>>]

\* lines 358-363: the contrast ratio and the colour name of the glyph
ContrastOfColors(page_num, char, ln, text_color, bg_color) ==
    ContrastOfRatio(page_num, char, ln, text_color, bg_color,
                    calculate_contrast_ratio(text_color, bg_color),
                    identify_problematic_color(text_color))

\* lines 346-418: one glyph of the line; [issues, color_issues] it adds
ContrastOfChar(page_num, char, ln) ==
    ContrastOfColors(page_num, char, ln, normalize_color(char.color),
                     extract_background_color(char.x0, GetY0(char)))

\* line_issues.append / self.color_issues.append, glyph after glyph
JoinFound(one, rest) ==
    [issues |-> one.issues \o rest.issues,
     color_issues |-> one.color_issues \o rest.color_issues]

RECURSIVE ContrastOfChars(_, _, _)
\* the loop of lines 344-420 over the glyphs of the line
ContrastOfChars(page_num, chars, ln) ==
    IF chars = <<>> THEN [issues |-> <<>>, color_issues |-> <<>>]
    ELSE JoinFound(ContrastOfChar(page_num, Head(chars), ln),
                   ContrastOfChars(page_num, Tail(chars), ln))

\* the result of a line analysis that stops before its glyph loop
NotAnalysed(line_chars, line_text) ==
    [analysed |-> FALSE, line_chars |-> line_chars, line_text |-> line_text,
     is_large_wcag |-> FALSE, required_contrast |-> 0,
     issues |-> <<>>, color_issues |-> <<>>]

\* lines 336-341: the locals of the line.  is_bold looks at every glyph,
\* is_large_wcag at the font name of the first glyph only.
LineLocals(line_chars, normalized_line_text, is_large_wcag) ==
    [normalized_line_text |-> normalized_line_text,
     size_sum |-> SumSizes(line_chars), count |-> Len(line_chars),
     is_bold |-> \E i \in 1..Len(line_chars) :
                     Contains(line_chars[i].fontname, S_Bold),
     is_large_wcag |-> is_large_wcag,
     required_contrast |-> RequiredContrast(is_large_wcag)]

\* lines 344-425: the result of the glyph loop
LineResult(line_chars, line_text, ln, found) ==
    [analysed |-> TRUE, line_chars |-> line_chars, line_text |-> line_text,
     is_large_wcag |-> ln.is_large_wcag,
     required_contrast |-> ln.required_contrast,
     issues |-> found.issues, color_issues |-> found.color_issues]

\* lines 344-420: the glyph loop under the locals of the line
AnalyzeLineWith(page_num, line_chars, line_text, ln) ==
    LineResult(line_chars, line_text, ln, ContrastOfChars(page_num, line_chars, ln))

\* lines 331-341: a normalized line shorter than 3 characters is left alone
AnalyzeNormalizedLine(page_num, line_chars, line_text, normalized_line_text) ==
    IF Len(normalized_line_text) < 3
    THEN NotAnalysed(line_chars, line_text)
    ELSE AnalyzeLineWith(page_num, line_chars, line_text,
             LineLocals(line_chars, normalized_line_text,
                 is_large_text_by_wcag(SumSizes(line_chars), Len(line_chars),
                                       line_chars[1].fontname)))

\* analyze_text_line_contrast(page_num, line_chars, line_text): the issues
\* returned and the entries appended to self.color_issues, with the locals
\* is_large_wcag and required_contrast; analysed tells whether the glyph
\* loop was reached.
analyze_text_line_contrast(page_num, line_chars, line_text) ==
    IF line_chars = <<>> \/ Strip(line_text) = <<>>
    THEN NotAnalysed(line_chars, line_text)
    ELSE AnalyzeNormalizedLine(page_num, line_chars, line_text,
                               remove_duplicate_chars(Strip(line_text)))

\* normalized_text[:80] + ("..." if len(normalized_text) > 80 else "")
Preview80(text) ==
    IF Len(text) > 80 THEN SubSeq(text, 1, 80) \o Ellipsis ELSE text

\* line 494 with the medium band open at 10pt
FontSizeSeverityStrict(font_size) == IF font_size > 100 THEN "medium" ELSE "high"

\* line 494: 'medium' if font_size >= 10 else 'high'
FontSizeSeverity(font_size) == IF font_size >= 100 THEN "medium" ELSE "high"

\* lines 467-497 with every glyph of a 'Bold' font taken for a heading
FontSizeIssuesBoldExempt(page_num, char, normalized_text) ==
    IF Contains(char.fontname, S_Bold) \/ char.size >= MIN_FONT_SIZE THEN <<>>
    ELSE <<Issue(page_num, char.x0, GetY0(char), Preview80(normalized_text),
                 "FontSize",
                 Description("text_size", char.size, MIN_FONT_SIZE,
                             FALSE, 0, 0, NoColorName, <<>>),
                 FontSizeSeverity(char.size), char.fontname, char.size,
                 Black, White)>>

\* lines 467-497 with a heading minimum of 16pt
FontSizeIssuesHeading16(page_num, char, normalized_text) ==
    IF Contains(char.fontname, S_Bold) /\ char.size >= 140
    THEN IF char.size < 160
         THEN <<Issue(page_num, char.x0, GetY0(char), Preview80(normalized_text),
                      "FontSize",
                      Description("heading_size", char.size, 160,
                                  FALSE, 0, 0, NoColorName, <<>>),
                      "high", char.fontname, char.size, Black, White)>>
         ELSE <<>>
    ELSE IF ~is_large_text_by_wcag(char.size, 1, char.fontname)
            /\ char.size < MIN_FONT_SIZE
    THEN <<Issue(page_num, char.x0, GetY0(char), Preview80(normalized_text),
                 "FontSize",
                 Description("text_size", char.size, MIN_FONT_SIZE,
                             FALSE, 0, 0, NoColorName, <<>>),
                 FontSizeSeverity(char.size), char.fontname, char.size,
                 Black, White)>>
    ELSE <<>>

\* lines 467-497: the FontSize issue of a glyph, if any
FontSizeIssues(page_num, char, normalized_text) ==
    LET font_size == char.size
        font_name == char.fontname
        is_bold == Contains(font_name, S_Bold)
        is_large_wcag == is_large_text_by_wcag(font_size, 1, font_name)
    IN IF is_bold /\ font_size >= 140
       THEN IF font_size < MIN_HEADING_SIZE
            THEN <<Issue(page_num, char.x0, GetY0(char), Preview80(normalized_text),
                         "FontSize",
                         Description("heading_size", font_size, MIN_HEADING_SIZE,
                                     FALSE, 0, 0, NoColorName, <<>>),
                         "high", font_name, font_size, Black, White)>>
            ELSE <<>>
       ELSE IF ~is_large_wcag /\ font_size < MIN_FONT_SIZE
       THEN <<Issue(page_num, char.x0, GetY0(char), Preview80(normalized_text),
                    "FontSize",
                    Description("text_size", font_size, MIN_FONT_SIZE,
                                FALSE, 0, 0, NoColorName, <<>>),
                    FontSizeSeverity(font_size), font_name, font_size,
                    Black, White)>>
       ELSE <<>>

\* lines 500-515: the FontReadability issue of a glyph, if any
ReadabilityIssues(page_num, char, normalized_text) ==
    LET info == check_font_readability(char.fontname)
    IN IF ~info.readable
       THEN <<Issue(page_num, char.x0, GetY0(char), Preview80(normalized_text),
                    "FontReadability",
                    Description(info.kind, 0, 0, FALSE, 0, 0, NoColorName,
                                info.font),
                    "medium", char.fontname, char.size, Black, White)>>
       ELSE <<>>

\* The state of one analyze_page call: its locals page_issues and
\* processed_lines, the analyzer's caches and color_issues, and line_result,
\* the result of the analyze_text_line_contrast call of the latest glyph
\* (None if that glyph made none).
NewPageState(color_issues_) ==
    [page_issues |-> <<>>, processed_lines |-> {},
     line_cache |-> EmptyDict, full_text_cache |-> EmptyDict,
     color_issues |-> color_issues_, line_result |-> None]

\* line 438 without the whitespace test: only an empty text is skipped
IsSkippedEmptyOnly(char) == char.text = <<>>

\* line 438: char_text.isspace() or not char_text.strip()
IsSkipped(char) == Strip(char.text) = <<>>

\* lines 446-448: the line is analysed if its text is not blank
LineContrast(page_num, line) ==
    IF Strip(line.text) # <<>>
    THEN Some(analyze_text_line_contrast(page_num, line.chars, line.text))
    ELSE None

\* lines 448-451: the issues of the line are appended and the line is
\* marked as processed
ProcessLine(ps, line_y, got, contrast) ==
    [page_issues |-> IF contrast = None THEN ps.page_issues
                     ELSE ps.page_issues \o contrast[1].issues,
     processed_lines |-> ps.processed_lines \cup {line_y},
     line_cache |-> got.line_cache,
     full_text_cache |-> got.full_text_cache,
     color_issues |-> IF contrast = None THEN ps.color_issues
                      ELSE ps.color_issues \o contrast[1].color_issues,
     line_result |-> contrast]

\* lines 441-451 without the test of line 443: the line of every glyph is
\* analysed
AnalyzeLineStepAlways(ps, page_num, chars, char) ==
    ProcessLine(ps, Round2(GetY0(char)),
        get_text_line(ps.line_cache, ps.full_text_cache, page_num,
                      chars, GetY0(char)),
        LineContrast(page_num,
            get_text_line(ps.line_cache, ps.full_text_cache, page_num,
                          chars, GetY0(char)).line))

\* lines 441-451: the line of the glyph, once per rounded y
AnalyzeLineStep(ps, page_num, chars, char) ==
    IF Round2(GetY0(char)) \in ps.processed_lines
    THEN [ps EXCEPT !.line_result = None]
    ELSE ProcessLine(ps, Round2(GetY0(char)),
             get_text_line(ps.line_cache, ps.full_text_cache, page_num,
                           chars, GetY0(char)),
             LineContrast(page_num,
                 get_text_line(ps.line_cache, ps.full_text_cache, page_num,
                               chars, GetY0(char)).line))

\* lines 460-515: the FontSize and FontReadability issues of the glyph
GlyphIssues(page_num, char, normalized_text) ==
    IF Len(normalized_text) < 3 THEN <<>>
    ELSE FontSizeIssues(page_num, char, normalized_text)
         \o ReadabilityIssues(page_num, char, normalized_text)

\* lines 454-515: the glyph's own checks, on the text of its line
AddGlyphIssues(ps, page_num, char, got) ==
    [ps EXCEPT !.page_issues =
                   @ \o GlyphIssues(page_num, char,
                            remove_duplicate_chars(Strip(got.line.text))),
               !.line_cache = got.line_cache,
               !.full_text_cache = got.full_text_cache]

\* lines 454-515 with the second get_text_line call
AnalyzeGlyphStep(ps, page_num, chars, char) ==
    AddGlyphIssues(ps, page_num, char,
        get_text_line(ps.line_cache, ps.full_text_cache, page_num, chars,
                      GetY0(char)))

\* lines 435-517: the body of analyze_page's loop for one glyph
AnalyzeCharStep(ps, page_num, chars, char) ==
    IF IsSkipped(char) THEN [ps EXCEPT !.line_result = None]
    ELSE AnalyzeGlyphStep(AnalyzeLineStep(ps, page_num, chars, char),
                          page_num, chars, char)

RECURSIVE AnalyzeCharsFrom(_, _, _, _)
\* the loop of analyze_page from glyph i on
AnalyzeCharsFrom(ps, page_num, chars, i) ==
    IF i > Len(chars) THEN ps
    ELSE AnalyzeCharsFrom(AnalyzeCharStep(ps, page_num, chars, chars[i]),
                          page_num, chars, i + 1)

\* analyze_page(page_num, page) on a page whose chars can be read: the
\* issues it returns
analyze_page(page_num, chars) ==
    AnalyzeCharsFrom(NewPageState(<<>>), page_num, chars, 1).page_issues

(***************************************************************************)
(* SpecText: the text normalizer on bounded inputs                          *)
(***************************************************************************)
TextAlphabet == {"a", "A", " ", "."}
RepAlphabet == {"a", "b"}

SeqsUpTo(S, n) == UNION {[1..k -> S] : k \in 0..n}

Texts == SeqsUpTo(TextAlphabet, MaxLen) \cup SeqsUpTo(RepAlphabet, MaxRepLen)

\* the text harness at rest
TextIdle ==
    /\ t_in = <<>>
    /\ t_dedup = None
    /\ t_dedup2 = None
    /\ t_key = None
    /\ t_words = None

\* the aggregator results not computed
AggIdle ==
    /\ summary = None
    /\ text_page_groups = None
    /\ pattern_groups = None

\* the __main__ block is not run and no report has been generated
NoFile == [exists |-> FALSE, readable |-> FALSE, pdf_ext |-> FALSE]

CliIdle ==
    /\ cli_pc = "off"
    /\ file = NoFile
    /\ report_format = "json"
    /\ exit_code = None
    /\ report = None

\* no test method runs
TestIdle ==
    /\ test_name = "none"
    /\ test_pc = "off"
    /\ run_teardown = None
    /\ http_response = None
    /\ requests_log = <<>>
    /\ repo_exists = FALSE

\* a fresh analyzer (__init__) on no document, analyze() not called
NoDoc == [openable |-> FALSE, pages |-> <<>>]

AnalyzerIdle ==
    /\ doc = NoDoc
    /\ pc = "idle"
    /\ page_no = 0
    /\ char_idx = 0
    /\ page_issues = <<>>
    /\ processed_lines = {}
    /\ line_result = None
    /\ line_cache = EmptyDict
    /\ full_text_cache = EmptyDict
    /\ color_issues = <<>>

InitText ==
    /\ t_in \in Texts
    /\ t_dedup = None
    /\ t_dedup2 = None
    /\ t_key = None
    /\ t_words = None
    /\ AnalyzerIdle
    /\ issues = <<>>
    /\ AggIdle
    /\ CliIdle
    /\ TestIdle

\* deduplicate(s)
Deduplicate ==
    /\ t_dedup = None
    /\ t_dedup' = Some(remove_duplicate_chars(t_in))
    /\ UNCHANGED <<t_in, t_dedup2, t_key, t_words, docVars, issues, aggVars, cliVars, report, testVars>>

\* deduplicate applied to its own result
DeduplicateAgain ==
    /\ t_dedup # None
    /\ t_dedup2 = None
    /\ t_dedup2' = Some(remove_duplicate_chars(t_dedup[1]))
    /\ UNCHANGED <<t_in, t_dedup, t_key, t_words, docVars, issues, aggVars, cliVars, report, testVars>>

\* canonical_key(s)
CanonicalKey ==
    /\ t_key = None
    /\ t_key' = Some(normalize_text_for_grouping(t_in))
    /\ UNCHANGED <<t_in, t_dedup, t_dedup2, t_words, docVars, issues, aggVars, cliVars, report, testVars>>

\* word_count(s)
CountWords ==
    /\ t_words = None
    /\ t_words' = Some(count_words(t_in))
    /\ UNCHANGED <<t_in, t_dedup, t_dedup2, t_key, docVars, issues, aggVars, cliVars, report, testVars>>

NextText == Deduplicate \/ DeduplicateAgain \/ CanonicalKey \/ CountWords

SpecText == InitText /\ [][NextText]_vars

(***************************************************************************)
(* C2: deduplicate is idempotent: for every text s,                         *)
(* deduplicate(deduplicate(s)) = deduplicate(s).                            *)
(***************************************************************************)
\* C2: deduplicating a deduplicated text leaves it as it is
C2_DedupIdempotent == t_dedup2 # None => t_dedup2 = t_dedup

(***************************************************************************)
(* C7: canonical_key is insensitive to case and spacing: a text that        *)
(* differs from the input only in letter case, or only in the amount of     *)
(* whitespace between or around its words, has the same canonical key.      *)
(***************************************************************************)
DiffersOnlyInCase(u, v) == Lower(u) = Lower(v)

DiffersOnlyInSpacing(u, v) == Split(u) = Split(v)

\* C7: a text that differs from the input only in letter case, or only in
\* spacing, has the input's canonical key
C7_KeyIgnoresCaseAndSpacing ==
    t_key # None =>
        \A u \in SeqsUpTo(TextAlphabet, MaxLen) :
            (DiffersOnlyInCase(u, t_in) \/ DiffersOnlyInSpacing(u, t_in))
                => normalize_text_for_grouping(u) = t_key[1]

(***************************************************************************)
(* SpecAgg: the aggregator on bounded issue lists                           *)
(***************************************************************************)
T_words == <<"w", "o", "r", "d", "s">>
T_Words == <<"W", "o", "r", "d", "s">>
T_ab == <<"a", "b", ".">>
T_abc == <<"a", "b", "c">>
\* two texts longer than KeyBudget that differ only after the budget
LongChar(i) ==
    CASE i % 6 = 1 -> "a" [] i % 6 = 2 -> "b" [] i % 6 = 3 -> "c"
      [] i % 6 = 4 -> "d" [] i % 6 = 5 -> "e" [] OTHER -> " "
T_long1 == [i \in 1..(KeyBudget + 2) |->
               IF i = KeyBudget + 2 THEN "a" ELSE LongChar(i)]
T_long2 == [i \in 1..(KeyBudget + 2) |->
               IF i = KeyBudget + 2 THEN "b" ELSE LongChar(i)]

\* an AccessibilityIssue as the detector builds one
MkIssue(page, issue_type, severity, text) ==
    Issue(page, 1, 10000, text, issue_type,
          Description(CASE issue_type = "Contrast" -> "regular_text"
                        [] issue_type = "FontSize" -> "text_size"
                        [] OTHER -> "unknown",
                      IF severity = "high" THEN 90 ELSE 100, 0, FALSE, 0, 0,
                      NoColorName, <<>>),
          severity, F_Foo, IF severity = "high" THEN 90 ELSE 100, Black, White)

AggIssues ==
    {MkIssue(p, "Contrast", "high", t) : p \in {1, 2}, t \in {T_words, T_Words}}
    \cup {MkIssue(p, "FontSize", "medium", T_words) : p \in {1, 2}}
    \cup {MkIssue(1, "FontSize", "high", T_ab),
          MkIssue(1, "FontReadability", "medium", T_long1),
          MkIssue(2, "Contrast", "low", T_long2)}

InitAgg ==
    /\ TextIdle
    /\ AnalyzerIdle
    /\ issues \in SeqsUpTo(AggIssues, MaxIssues)
    /\ AggIdle
    /\ CliIdle
    /\ TestIdle

Summarize ==
    /\ summary = None
    /\ summary' = Some(group_and_summarize_issues_improved(issues))
    /\ UNCHANGED <<textVars, docVars, issues, cliVars, report, testVars, text_page_groups, pattern_groups>>

GroupByTextAndPage ==
    /\ text_page_groups = None
    /\ text_page_groups' = Some(group_issues_by_text_and_page(issues))
    /\ UNCHANGED <<textVars, docVars, issues, cliVars, report, testVars, summary, pattern_groups>>

GroupByTextPattern ==
    /\ pattern_groups = None
    /\ pattern_groups' = Some(group_issues_by_text_pattern(issues))
    /\ UNCHANGED <<textVars, docVars, issues, cliVars, report, testVars, summary, text_page_groups>>

NextAgg == Summarize \/ GroupByTextAndPage \/ GroupByTextPattern

SpecAgg == InitAgg /\ [][NextAgg]_vars

(***************************************************************************)
(* C3: aggregation conservation: after summarize, overall.total_places,     *)
(* the sum of by_severity[*].places, the sum of by_type[*].total_places and *)
(* the sum of all by_type_severity[type][severity].places each equal        *)
(* len(issues).                                                             *)
(***************************************************************************)
SumBySeverityPlaces(sm) ==
    SumOver(DOMAIN sm.by_severity, [k \in DOMAIN sm.by_severity |->
                                       sm.by_severity[k].places])

SumByTypePlaces(sm) ==
    SumOver(DOMAIN sm.by_type, [k \in DOMAIN sm.by_type |->
                                   sm.by_type[k].total_places])

SumByTypeSeverityPlaces(sm) ==
    SumOver(DOMAIN sm.by_type_severity,
            [k \in DOMAIN sm.by_type_severity |->
                SumOver(Severities, [v \in Severities |->
                                        sm.by_type_severity[k][v].places])])

\* C3: each of the four views of the summary counts len(issues) places
C3_AggregationConservation ==
    summary # None =>
        /\ summary[1].overall.total_places = Len(issues)
        /\ SumBySeverityPlaces(summary[1]) = Len(issues)
        /\ SumByTypePlaces(summary[1]) = Len(issues)
        /\ SumByTypeSeverityPlaces(summary[1]) = Len(issues)

\* C3 witness: a list in which one type recurs on one page has been
\* summarized
C3_Witness ==
    /\ summary # None
    /\ Len(issues) = MaxIssues
    /\ \E i, j \in 1..Len(issues) :
          /\ i # j
          /\ issues[i].issue_type = issues[j].issue_type
          /\ issues[i].page = issues[j].page
          /\ issues[i].severity = issues[j].severity
    /\ Cardinality(DOMAIN summary[1].by_type) >= 2

(***************************************************************************)
(* C8: pattern filtering.                                                   *)
(***************************************************************************)
\* the positions of the issues whose canonical key is key
CanonicalGroup(key) ==
    {i \in 1..Len(issues) : normalize_text_for_grouping(issues[i].text) = key}

\* the canonical keys of the groups with exactly 1 occurrence (so 1 page)
SingletonKeys ==
    {key \in {normalize_text_for_grouping(issues[i].text) : i \in 1..Len(issues)} :
        Cardinality(CanonicalGroup(key)) = 1}

TheIssueOf(key) == issues[CHOOSE i \in CanonicalGroup(key) : TRUE]

InSeq(x, sq) == \E i \in 1..Len(sq) : sq[i] = x

\* the text-and-page output has the group under its key, holding its issue
PresentInTextPage(key) ==
    /\ key \in DOMAIN text_page_groups[1]
    /\ TheIssueOf(key).page \in DOMAIN text_page_groups[1][key].pages
    /\ InSeq(TheIssueOf(key), text_page_groups[1][key].pages[TheIssueOf(key).page])

\* C8 as claimed: every canonical-key group with exactly 1 occurrence on
\* exactly 1 page is absent from group_by_text_pattern's output and present
\* in group_by_text_and_page's output.
C8_SingletonAbsentAndPresent ==
    (pattern_groups # None /\ text_page_groups # None) =>
        \A key \in SingletonKeys :
            /\ key \notin DOMAIN pattern_groups[1]
            /\ PresentInTextPage(key)

\* C8 as amended: a canonical-key group with exactly 1 occurrence whose key
\* has at least MinTextPageKeyLen characters is not a key of the pattern
\* output and is present, with its issue, in the text-and-page output; if
\* its key is within KeyBudget no pattern group holds its issue either.
C8_SingletonFiltered ==
    (pattern_groups # None /\ text_page_groups # None) =>
        \A key \in SingletonKeys :
            Len(key) >= MinTextPageKeyLen =>
                /\ key \notin DOMAIN pattern_groups[1]
                /\ PresentInTextPage(key)
                /\ Len(key) <= KeyBudget =>
                      \A k \in DOMAIN pattern_groups[1] :
                          ~InSeq(TheIssueOf(key), pattern_groups[1][k].issues)

\* C8 witness: both views are computed for a list with a singleton group of
\* a key long enough for both views, next to a reported group
C8_Witness ==
    /\ pattern_groups # None
    /\ text_page_groups # None
    /\ \E key \in SingletonKeys :
          Len(key) >= MinPatternKeyLen /\ Len(key) <= KeyBudget
    /\ DOMAIN pattern_groups[1] # {}

(***************************************************************************)
(* C21: group_by_text_pattern's output contains a group if and only if the  *)
(* group (after key truncation) has at least 2 distinct pages or at least 3 *)
(* occurrences; for every returned group total_issues is the number of its  *)
(* issues, total_pages the number of its distinct pages, and pages_sorted   *)
(* is ascending.                                                            *)
(***************************************************************************)
\* the positions of the issues filed under the pattern key
PatternGroup(key) ==
    {i \in 1..Len(issues) : PatternKey(issues[i].text) = key}

PatternPages(key) == {issues[i].page : i \in PatternGroup(key)}

PatternKeys == {PatternKey(issues[i].text) : i \in 1..Len(issues)}

\* the group of the key is reported with its totals and its pages in
\* ascending order
PatternGroupReported(key) ==
    /\ key \in DOMAIN pattern_groups[1]
    /\ pattern_groups[1][key].total_issues = Cardinality(PatternGroup(key))
    /\ Len(pattern_groups[1][key].issues) = Cardinality(PatternGroup(key))
    /\ pattern_groups[1][key].total_pages = Cardinality(PatternPages(key))
    /\ {pattern_groups[1][key].pages_sorted[i] :
            i \in 1..Len(pattern_groups[1][key].pages_sorted)} = PatternPages(key)
    /\ \A i \in 1..(Len(pattern_groups[1][key].pages_sorted) - 1) :
           pattern_groups[1][key].pages_sorted[i]
               < pattern_groups[1][key].pages_sorted[i + 1]

PatternGroupLargeEnough(key) ==
    Cardinality(PatternPages(key)) >= 2 \/ Cardinality(PatternGroup(key)) >= 3

\* C21 as claimed: every group on 2 pages or with 3 occurrences is reported,
\* with its totals, and no other group is
C21_PatternGroupsReported ==
    pattern_groups # None =>
        /\ DOMAIN pattern_groups[1] \subseteq PatternKeys
        /\ \A key \in PatternKeys :
               IF PatternGroupLargeEnough(key)
               THEN PatternGroupReported(key)
               ELSE key \notin DOMAIN pattern_groups[1]

\* C21 as amended: so it is for the groups whose key has at least
\* MinPatternKeyLen characters, and a group of a shorter key is not reported
C21_LongKeyPatternGroupsReported ==
    pattern_groups # None =>
        /\ DOMAIN pattern_groups[1] \subseteq PatternKeys
        /\ \A key \in PatternKeys :
               IF PatternGroupLargeEnough(key) /\ Len(key) >= MinPatternKeyLen
               THEN PatternGroupReported(key)
               ELSE key \notin DOMAIN pattern_groups[1]

\* C21 witness: a group of 3 occurrences on 1 page is reported while a group
\* of fewer occurrences of the list is not
C21_Witness ==
    /\ pattern_groups # None
    /\ \E key \in DOMAIN pattern_groups[1] :
          /\ pattern_groups[1][key].total_pages = 1
          /\ pattern_groups[1][key].total_issues >= 3
    /\ Len(issues) > 3 => PatternKeys # DOMAIN pattern_groups[1]

(***************************************************************************)
(* C26: the four summary views agree with each other for every issue list:  *)
(* for every type t and severity s, by_type_severity[t][s] (places and      *)
(* words) equals by_severity[s].types[t]; by_type[t].total_places equals    *)
(* the sum over s of by_type_severity[t][s].places and equals               *)
(* overall.types_distribution[t]; by_severity[s].places equals              *)
(* overall.severity_distribution[s]; and the union of                       *)
(* by_type[*].pages_affected equals overall.pages_with_issues.              *)
(***************************************************************************)
\* the entries of the views as a lookup of the defaultdicts gives them
TypeSeverityOf(sm, t, s) == DictGet(sm.by_type_severity, t, NewTypeSeverity)[s]

SeverityTypeOf(sm, s, t) ==
    DictGet(DictGet(sm.by_severity, s, NewSeverity).types, t, NewPlacesWords)

TypeSeverityPlaces(sm, t) ==
    SumOver(Severities, [s \in Severities |-> TypeSeverityOf(sm, t, s).places])

ViewsAgree(sm) ==
    /\ \A t \in IssueTypes : \A s \in Severities :
           TypeSeverityOf(sm, t, s) = SeverityTypeOf(sm, s, t)
    /\ \A t \in IssueTypes :
           /\ DictGet(sm.by_type, t, NewType).total_places
                  = TypeSeverityPlaces(sm, t)
           /\ DictGet(sm.by_type, t, NewType).total_places
                  = DictGet(sm.overall.types_distribution, t, 0)
    /\ \A s \in Severities :
           DictGet(sm.by_severity, s, NewSeverity).places
               = DictGet(sm.overall.severity_distribution, s, 0)
    /\ UNION {sm.by_type[t].pages_affected : t \in DOMAIN sm.by_type}
           = sm.overall.pages_with_issues
    /\ DOMAIN sm.by_type \subseteq IssueTypes
    /\ DOMAIN sm.by_type = DOMAIN sm.by_type_severity
    /\ DOMAIN sm.by_type = DOMAIN sm.overall.types_distribution
    /\ DOMAIN sm.by_severity \subseteq Severities
    /\ DOMAIN sm.by_severity = DOMAIN sm.overall.severity_distribution

\* C26: the four views of the summary of the issue list agree
C26_SummaryViewsAgree == summary # None => ViewsAgree(summary[1])

\* C26 witness: the summary of a list with two issues of one type and
\* severity, with words, and an issue of another type on another page
C26_Witness ==
    /\ summary # None
    /\ Cardinality(DOMAIN summary[1].by_type) >= 2
    /\ Cardinality(summary[1].overall.pages_with_issues) >= 2
    /\ \E t \in IssueTypes : \E s \in Severities :
           /\ TypeSeverityOf(summary[1], t, s).places = 2
           /\ TypeSeverityOf(summary[1], t, s).words >= 2

(***************************************************************************)
(* Spec: analyze() over bounded documents                                   *)
(***************************************************************************)
\* A page is [kind, chars]: kind "ok" (page.chars can be read),
\* "chars_error" (reading page.chars raises) or "open_error" (the page
\* source raises while it opens the page, when pdf.pages is built).
OkPage(chars) == [kind |-> "ok", chars |-> chars]
CharsErrorPage == [kind |-> "chars_error", chars |-> <<>>]
OpenErrorPage == [kind |-> "open_error", chars |-> <<>>]

\* the glyphs of a page from their styles: the id is the position
MkPage(styles) == [i \in 1..Len(styles) |-> [styles[i] EXCEPT !.id = i]]

Gray(v) == RawTuple(<<v, v, v>>)

\* the glyphs the varied pages are built from
GlyphStyles ==
    {Glyph(0, T_abc, 1, TRUE, 10000, 120, F_Arial, RawTuple(Black)),
     Glyph(0, T_abc, 2, TRUE, 11000, 100, F_Arial, RawScalar(600)),
     Glyph(0, T_abc, 1, TRUE, 10000, 140, F_Arial, Gray(500)),
     Glyph(0, T_abc, 2, TRUE, 10000, 140, F_ArialBold, Gray(500)),
     Glyph(0, <<"a">>, 2, TRUE, 10004, 90, F_Foo, RawTuple(<<800>>)),
     Glyph(0, <<" ">>, 1, TRUE, 10000, 180, F_Papyrus, RawTuple(<<0, 800, 0>>)),
     Glyph(0, T_abc, 1, FALSE, 0, 100, F_Arial, RawTuple(Black)),
     Glyph(0, T_abc, 1, TRUE, 13000, 180, F_ArialBlack, RawTuple(<<1000, 0, 0>>)),
     Glyph(0, T_abc, 1, TRUE, 10000, 120, F_Papyrus, RawNone),
     Glyph(0, T_abc, 3, TRUE, 10000, 160, F_ArialBlack,
           RawTuple(<<0, 500, 500, 500>>))}

VariedDocs ==
    {[openable |-> TRUE, pages |-> <<OkPage(MkPage(styles))>>] :
        styles \in SeqsUpTo(GlyphStyles, MaxGlyphs)}

\* the run "hello": one glyph per character, left to right on one line
HelloText == <<"h", "e", "l", "l", "o">>

\* the run with the glyphs at the positions of blanks showing a space
HelloPage(blanks, size, fontname) ==
    [i \in 1..Len(HelloText) |->
        Glyph(i, IF i \in blanks THEN <<" ">> ELSE <<HelloText[i]>>,
              i, TRUE, 10000, size, fontname, RawTuple(Black))]

HelloDocOf(blanks, size, fontname) ==
    [openable |-> TRUE, pages |-> <<OkPage(HelloPage(blanks, size, fontname))>>]

RunDocs ==
    {HelloDocOf(blanks, size, fontname) :
        blanks \in SUBSET (1..Len(HelloText)),
        size \in {90, 100, 120},
        fontname \in {F_Arial, F_Papyrus}}

\* the pages the multi-page documents are built from
SamplePages ==
    {OkPage(MkPage(<<Glyph(0, T_abc, 2, TRUE, 11000, 100, F_Arial, RawScalar(600))>>)),
     OkPage(MkPage(<<Glyph(0, T_abc, 1, TRUE, 10000, 120, F_Papyrus, RawNone)>>)),
     CharsErrorPage,
     OpenErrorPage}

PagedDocs ==
    {[openable |-> TRUE, pages |-> pages] :
        pages \in SeqsUpTo(SamplePages, MaxPages)}

\* pages of up to three glyphs "abc", each one step above the one before
StairPage(n, step) ==
    [i \in 1..n |->
        Glyph(i, T_abc, 1, TRUE, 10000 + step * (i - 1), 120, F_Arial,
              RawScalar(600))]

StairDocs ==
    {[openable |-> TRUE, pages |-> <<OkPage(StairPage(n, step))>>] :
        n \in 1..3, step \in {500, 1500, 2500}}

\* a 12pt regular "Arial" line of one-character glyphs, the glyph at
\* position gray in gray (0.6, 0.6, 0.6) and the others in black
GrayLinePage(text, gray) ==
    [i \in 1..Len(text) |->
        Glyph(i, <<text[i]>>, i, TRUE, 10000, 120, F_Arial,
              IF i = gray THEN Gray(600) ELSE RawTuple(Black))]

GrayLineDocs ==
    {[openable |-> TRUE, pages |-> <<OkPage(GrayLinePage(text, gray))>>] :
        text \in SeqsUpTo({"a", "b", "c"}, MaxLineGlyphs) \ {<<>>},
        gray \in 1..MaxLineGlyphs}

\* one black glyph "abc" of every size around the limits 10, 12, 14 and
\* 18pt, in a regular, a 'Bold' and a 'Black' font
FontSizeDocs ==
    {[openable |-> TRUE,
      pages |-> <<OkPage(MkPage(<<Glyph(0, T_abc, 1, TRUE, 10000, size,
                                        fontname, RawTuple(Black))>>))>>] :
        size \in {90, 99, 100, 119, 120, 139, 140, 179, 180},
        fontname \in {F_Arial, F_ArialBold, F_ArialBlack}}

\* one black glyph "abc" in a font of the accessible set, of the poor set,
\* of both, of neither, with a subset tag, and with no font name
ReadabilityFonts ==
    {F_Arial, F_Papyrus, F_Foo, F_CourierArial, F_SubsetArialMT, <<>>}

ReadabilityDocs ==
    {[openable |-> TRUE,
      pages |-> <<OkPage(MkPage(<<Glyph(0, T_abc, 1, TRUE, 10000, size,
                                        fontname, RawTuple(Black))>>))>>] :
        size \in {90, 120, 180}, fontname \in ReadabilityFonts}

\* raw colours of every shape normalize_color tells apart, with channels
\* inside and outside [0, 1]
ColourInputs ==
    {RawNone, RawOther,
     RawScalar(-1000), RawScalar(0), RawScalar(500), RawScalar(1000),
     RawScalar(1200),
     RawTuple(<<500>>), RawTuple(<<1200>>), RawTuple(<<500, 500>>),
     RawTuple(<<500, 500, 500>>), RawTuple(<<1200, 1200, 1200>>),
     RawTuple(<<0, 0, 0, 500>>), RawTuple(<<0, 0, 0, 2000>>)}

\* one 12pt glyph "abc" in each of the colours
ColourDocs ==
    {[openable |-> TRUE,
      pages |-> <<OkPage(MkPage(<<Glyph(0, T_abc, 1, TRUE, 10000, 120, F_Arial,
                                        color)>>))>>] :
        color \in ColourInputs}

\* three 10pt glyphs "abc" at y0 10.004, 10.0 and 12.002, in three orders:
\* the first two have the same rounded y0, the third lies in the band of
\* 10.004 and outside the band of 10.0
JitterOrders ==
    {<<10004, 10000, 12002>>, <<10000, 10004, 12002>>, <<12002, 10000, 10004>>}

JitterPage(ys) ==
    [i \in 1..Len(ys) |->
        Glyph(i, T_abc, i, TRUE, ys[i], 100, F_Arial, RawTuple(Black))]

JitterDocs ==
    {[openable |-> TRUE, pages |-> <<OkPage(JitterPage(ys))>>] :
        ys \in JitterOrders}

\* the glyphs "a", "b", "c" in gray (0.6, 0.6, 0.6), each one step above the
\* one before
LetterStairPage(step) ==
    [i \in 1..Len(T_abc) |->
        Glyph(i, <<T_abc[i]>>, i, TRUE, 10000 + step * (i - 1), 120, F_Arial,
              Gray(600))]

LetterStairDocs ==
    {[openable |-> TRUE, pages |-> <<OkPage(LetterStairPage(step))>>] :
        step \in {0, 1500, 2500}}

\* one glyph "abc" of 13.9, 14 or 18pt, regular or 'Bold', in a gray of
\* ratio 1.6, 2.8, 4.0 or 5.7 on white
LargeLineDocs ==
    {[openable |-> TRUE,
      pages |-> <<OkPage(MkPage(<<Glyph(0, T_abc, 1, TRUE, 10000, size,
                                        fontname, Gray(gray))>>))>>] :
        size \in {139, 140, 180}, fontname \in {F_Arial, F_ArialBold},
        gray \in {400, 500, 600, 800}}

Docs ==
    VariedDocs \cup RunDocs \cup StairDocs \cup GrayLineDocs \cup FontSizeDocs
        \cup ReadabilityDocs \cup ColourDocs \cup JitterDocs
        \cup LetterStairDocs \cup LargeLineDocs \cup PagedDocs \cup {NoDoc}

Init ==
    /\ TextIdle
    /\ AggIdle
    /\ doc \in Docs
    /\ pc = "start"
    /\ page_no = 0
    /\ char_idx = 0
    /\ page_issues = <<>>
    /\ processed_lines = {}
    /\ line_result = None
    /\ line_cache = EmptyDict
    /\ full_text_cache = EmptyDict
    /\ color_issues = <<>>
    /\ issues = <<>>
    /\ CliIdle
    /\ TestIdle

idleVars == <<textVars, aggVars, doc, cliVars, report, testVars>>

\* line 1052: pdfplumber.open raises; the except clause of analyze() ends it
OpenPdfFails ==
    /\ pc = "start"
    /\ ~doc.openable
    /\ pc' = "done"
    /\ UNCHANGED <<idleVars, page_no, char_idx, pageVars, color_issues, issues>>

\* lines 1053-1056: pdf.pages is built before the loop starts; an error of
\* the page source opening a page is raised there, outside analyze_page,
\* and the except clause of analyze() ends the run
OpenPagesFails ==
    /\ pc = "start"
    /\ doc.openable
    /\ \E k \in 1..Len(doc.pages) : doc.pages[k].kind = "open_error"
    /\ pc' = "done"
    /\ UNCHANGED <<idleVars, page_no, char_idx, pageVars, color_issues, issues>>

\* lines 1052-1056: the document is open and the loop starts; a page the
\* source cannot open may also raise only when the loop reaches it
OpenPdf ==
    /\ pc = "start"
    /\ doc.openable
    /\ pc' = "page"
    /\ page_no' = 1
    /\ UNCHANGED <<idleVars, char_idx, pageVars, color_issues, issues>>

\* BeginPage without lines 1059-1060: the caches keep the lines of the
\* pages before
BeginPageKeepingCaches ==
    /\ pc = "page"
    /\ page_no <= Len(doc.pages)
    /\ doc.pages[page_no].kind = "ok"
    /\ page_issues' = <<>>
    /\ processed_lines' = {}
    /\ line_result' = None
    /\ char_idx' = 1
    /\ pc' = "chars"
    /\ UNCHANGED <<idleVars, page_no, color_issues, issues, line_cache,
                   full_text_cache>>

\* lines 1059-1063 and 429-434: the caches are cleared and analyze_page
\* starts on a page whose chars can be read
BeginPage ==
    /\ pc = "page"
    /\ page_no <= Len(doc.pages)
    /\ doc.pages[page_no].kind = "ok"
    /\ line_cache' = EmptyDict
    /\ full_text_cache' = EmptyDict
    /\ page_issues' = <<>>
    /\ processed_lines' = {}
    /\ line_result' = None
    /\ char_idx' = 1
    /\ pc' = "chars"
    /\ UNCHANGED <<idleVars, page_no, color_issues, issues>>

\* line 1056: the page source raises when the loop asks for the page,
\* outside analyze_page; the except clause of analyze() ends the run with
\* the issues found so far
PageOpenFails ==
    /\ pc = "page"
    /\ page_no <= Len(doc.pages)
    /\ doc.pages[page_no].kind = "open_error"
    /\ pc' = "done"
    /\ UNCHANGED <<idleVars, page_no, char_idx, pageVars, color_issues, issues>>

\* lines 1059-1064 and 432-522: reading page.chars raises inside
\* analyze_page, which returns no issue; the loop goes on
PageCharsFail ==
    /\ pc = "page"
    /\ page_no <= Len(doc.pages)
    /\ doc.pages[page_no].kind = "chars_error"
    /\ line_cache' = EmptyDict
    /\ full_text_cache' = EmptyDict
    /\ page_issues' = <<>>
    /\ processed_lines' = {}
    /\ line_result' = None
    /\ page_no' = page_no + 1
    /\ UNCHANGED <<idleVars, pc, char_idx, color_issues, issues>>

\* lines 434-517: analyze_page handles the next glyph of the page
AnalyzeChar ==
    /\ pc = "chars"
    /\ char_idx <= Len(doc.pages[page_no].chars)
    /\ \E after \in {AnalyzeCharStep([page_issues |-> page_issues,
                                      processed_lines |-> processed_lines,
                                      line_cache |-> line_cache,
                                      full_text_cache |-> full_text_cache,
                                      color_issues |-> color_issues,
                                      line_result |-> line_result],
                                     page_no, doc.pages[page_no].chars,
                                     doc.pages[page_no].chars[char_idx])} :
          /\ page_issues' = after.page_issues
          /\ processed_lines' = after.processed_lines
          /\ line_cache' = after.line_cache
          /\ full_text_cache' = after.full_text_cache
          /\ color_issues' = after.color_issues
          /\ line_result' = after.line_result
    /\ char_idx' = char_idx + 1
    /\ UNCHANGED <<idleVars, pc, page_no, issues>>

\* EndPage with the issues of the page put before those of the pages done
EndPagePrepending ==
    /\ pc = "chars"
    /\ char_idx > Len(doc.pages[page_no].chars)
    /\ issues' = page_issues \o issues
    /\ page_issues' = <<>>
    /\ processed_lines' = {}
    /\ line_result' = None
    /\ char_idx' = 0
    /\ page_no' = page_no + 1
    /\ pc' = "page"
    /\ UNCHANGED <<idleVars, line_cache, full_text_cache, color_issues>>

\* lines 522 and 1064: analyze_page returns and its issues are appended
EndPage ==
    /\ pc = "chars"
    /\ char_idx > Len(doc.pages[page_no].chars)
    /\ issues' = issues \o page_issues
    /\ page_issues' = <<>>
    /\ processed_lines' = {}
    /\ line_result' = None
    /\ char_idx' = 0
    /\ page_no' = page_no + 1
    /\ pc' = "page"
    /\ UNCHANGED <<idleVars, line_cache, full_text_cache, color_issues>>

\* lines 1066-1073: the loop is over, analyze() returns self.issues
Finish ==
    /\ pc = "page"
    /\ page_no > Len(doc.pages)
    /\ pc' = "done"
    /\ UNCHANGED <<idleVars, page_no, char_idx, pageVars, color_issues, issues>>

\* generate_json_report() on the analyzer after analyze()
GenerateJsonReport ==
    /\ pc = "done"
    /\ report_format = "json"
    /\ report' = Some(generate_json_report(issues, color_issues))
    /\ pc' = "reported"
    /\ UNCHANGED <<textVars, aggVars, doc, cliVars, testVars, page_no, char_idx, pageVars,
                   color_issues, issues>>

Next ==
    \/ OpenPdfFails
    \/ OpenPagesFails
    \/ OpenPdf
    \/ BeginPage
    \/ PageOpenFails
    \/ PageCharsFail
    \/ AnalyzeChar
    \/ EndPage
    \/ Finish
    \/ GenerateJsonReport

Spec == Init /\ [][Next]_vars

(***************************************************************************)
(* SpecRepeat: analyze() called again on the same analyzer                  *)
(***************************************************************************)
\* lines 1047-1052: analyze() is called on the analyzer of a run that has
\* returned; nothing of lines 55-62 is set again
AnalyzeAgain ==
    /\ pc = "done"
    /\ Len(issues) < MaxFound
    /\ pc' = "start"
    /\ page_no' = 0
    /\ char_idx' = 0
    /\ UNCHANGED <<idleVars, pageVars, color_issues, issues>>

NextRepeat == AnalyzeAgain \/ Next

SpecRepeat == Init /\ [][NextRepeat]_vars

(***************************************************************************)
(* SpecTests: the test methods of TestGithubApi against the GitHub server   *)
(***************************************************************************)
Tests == {"test_get_user", "test_create_repo", "test_update_repo"}

\* a response: its status code, and whether the field of its body the test
\* looks at has the value the test expects
Response(status, matches) == [status |-> status, matches |-> matches]

\* the responses the server may give: a request succeeds only in a matching
\* state of the repository, and may be refused (401, 403) in any
Bodies(status) == IF status \in {200, 201} THEN BOOLEAN ELSE {FALSE}

GetStatuses == {200, 403, 404}

PostStatuses == IF repo_exists THEN {422, 401, 403} ELSE {201, 401, 403}

PatchStatuses == IF repo_exists THEN {200, 401, 403} ELSE {404, 401, 403}

DeleteStatuses == IF repo_exists THEN {204, 401, 403} ELSE {404, 401, 403}

\* the analyzer and the command line program are not run
programVars == <<textVars, docVars, issues, aggVars, cliVars, report>>

\* unittest calls one test method on a new TestGithubApi instance
InitTests ==
    /\ TextIdle
    /\ AnalyzerIdle
    /\ issues = <<>>
    /\ AggIdle
    /\ CliIdle
    /\ test_name \in Tests
    /\ test_pc = "setup"
    /\ run_teardown = None
    /\ http_response = None
    /\ requests_log = <<>>
    /\ repo_exists \in BOOLEAN

\* lines 11-18: setup(), called first by every test method
Setup ==
    /\ test_pc = "setup"
    /\ run_teardown' = Some(TRUE)
    /\ test_pc' = IF test_name = "test_get_user" THEN "flag" ELSE "post"
    /\ UNCHANGED <<programVars, test_name, http_response, requests_log,
                   repo_exists>>

\* line 31: test_get_user switches the teardown off
DisableTeardown ==
    /\ test_pc = "flag"
    /\ run_teardown' = Some(FALSE)
    /\ test_pc' = "get"
    /\ UNCHANGED <<programVars, test_name, http_response, requests_log,
                   repo_exists>>

\* lines 33-34: GET /users/{USERNAME}
GetUser ==
    /\ test_pc = "get"
    /\ \E status \in GetStatuses : \E matches \in Bodies(status) :
          /\ http_response' = Some(Response(status, matches))
          /\ requests_log' = Append(requests_log, <<"GET", status>>)
    /\ test_pc' = "assert"
    /\ UNCHANGED <<programVars, test_name, run_teardown, repo_exists>>

\* lines 44-51 and 64-71: POST /user/repos; test_update_repo drops the
\* response
PostRepo ==
    /\ test_pc = "post"
    /\ \E status \in PostStatuses : \E matches \in Bodies(status) :
          /\ http_response' = IF test_name = "test_create_repo"
                              THEN Some(Response(status, matches))
                              ELSE http_response
          /\ requests_log' = Append(requests_log, <<"POST", status>>)
          /\ repo_exists' = (repo_exists \/ status = 201)
    /\ test_pc' = IF test_name = "test_create_repo" THEN "assert" ELSE "patch"
    /\ UNCHANGED <<programVars, test_name, run_teardown>>

\* lines 74-82: PATCH /repos/{USERNAME}/{TEST_REPO_NAME}
PatchRepo ==
    /\ test_pc = "patch"
    /\ \E status \in PatchStatuses : \E matches \in Bodies(status) :
          /\ http_response' = Some(Response(status, matches))
          /\ requests_log' = Append(requests_log, <<"PATCH", status>>)
    /\ test_pc' = "assert"
    /\ UNCHANGED <<programVars, test_name, run_teardown, repo_exists>>

\* the status the asserts of the test method expect
ExpectedStatus == IF test_name = "test_create_repo" THEN 201 ELSE 200

\* lines 36-39, 53-56 and 84-87: the two asserts on the response; a failing
\* assert raises and ends the test method, after the last one
\* test_create_repo and test_update_repo call teardown()
AssertResponse ==
    /\ test_pc = "assert"
    /\ test_pc' = IF http_response[1].status = ExpectedStatus
                     /\ http_response[1].matches
                  THEN IF test_name = "test_get_user" THEN "passed"
                       ELSE "teardown"
                  ELSE "failed"
    /\ UNCHANGED <<programVars, test_name, run_teardown, http_response,
                   requests_log, repo_exists>>

\* lines 20-26: teardown(): DELETE /repos/{USERNAME}/{TEST_REPO_NAME} and
\* the assert on its status
Teardown ==
    /\ test_pc = "teardown"
    /\ IF run_teardown = Some(TRUE)
       THEN \E status \in DeleteStatuses :
               /\ http_response' = Some(Response(status, FALSE))
               /\ requests_log' = Append(requests_log, <<"DELETE", status>>)
               /\ repo_exists' = (repo_exists /\ status # 204)
               /\ test_pc' = IF status = 204 THEN "passed" ELSE "failed"
       ELSE /\ test_pc' = "passed"
            /\ UNCHANGED <<http_response, requests_log, repo_exists>>
    /\ UNCHANGED <<programVars, test_name, run_teardown>>

NextTests ==
    \/ Setup
    \/ DisableTeardown
    \/ GetUser
    \/ PostRepo
    \/ PatchRepo
    \/ AssertResponse
    \/ Teardown

SpecTests == InitTests /\ [][NextTests]_vars

(***************************************************************************)
(* SpecCli: the __main__ block run on a file                                *)
(***************************************************************************)
ReportFormats == {"full", "summary", "statistics", "json"}

\* the files: one that does not exist is not readable either
Files ==
    {f \in [exists : BOOLEAN, readable : BOOLEAN, pdf_ext : BOOLEAN] :
        f.readable => f.exists}

\* what the file holds: nothing pdfplumber can open, pages that fail, the
\* run "hello" at 10pt, and a line with a gray glyph
CliDocs ==
    {NoDoc,
     [openable |-> TRUE, pages |-> <<OpenErrorPage>>],
     [openable |-> TRUE, pages |-> <<CharsErrorPage>>],
     HelloDocOf({}, 100, F_Arial),
     [openable |-> TRUE,
      pages |-> <<OkPage(GrayLinePage(<<"a", "b", "c">>, 2))>>]}

\* the process starts at the check of the path; no analyzer exists yet
InitCli ==
    /\ TextIdle
    /\ AggIdle
    /\ TestIdle
    /\ file \in Files
    /\ doc \in IF file.readable THEN CliDocs ELSE {NoDoc}
    /\ report_format \in ReportFormats
    /\ cli_pc = "exists"
    /\ exit_code = None
    /\ report = None
    /\ pc = "idle"
    /\ page_no = 0
    /\ char_idx = 0
    /\ page_issues = <<>>
    /\ processed_lines = {}
    /\ line_result = None
    /\ line_cache = EmptyDict
    /\ full_text_cache = EmptyDict
    /\ color_issues = <<>>
    /\ issues = <<>>

cliIdleVars ==
    <<textVars, aggVars, testVars, doc, file, report_format, page_no, char_idx,
      pageVars, color_issues, issues>>

\* lines 1586-1593: the file does not exist, exit(1)
CliFileNotFound ==
    /\ cli_pc = "exists"
    /\ ~file.exists
    /\ cli_pc' = "exited"
    /\ exit_code' = Some(1)
    /\ UNCHANGED <<cliIdleVars, pc, report>>

\* lines 1586 and 1596: the file exists; its name is looked at
CliFileFound ==
    /\ cli_pc = "exists"
    /\ file.exists
    /\ cli_pc' = IF file.pdf_ext THEN "access" ELSE "confirm"
    /\ UNCHANGED <<cliIdleVars, pc, report, exit_code>>

\* lines 1597-1599: the answer to "Продолжить анализ? (y/n)" is y
CliConfirmed ==
    /\ cli_pc = "confirm"
    /\ cli_pc' = "access"
    /\ UNCHANGED <<cliIdleVars, pc, report, exit_code>>

\* lines 1598-1601: any other answer, exit(0)
CliCancelled ==
    /\ cli_pc = "confirm"
    /\ \E response \in {"n", ""} :
          /\ cli_pc' = "exited"
          /\ exit_code' = Some(0)
    /\ UNCHANGED <<cliIdleVars, pc, report>>

\* lines 1604-1607: the file cannot be read, exit(1)
CliNoAccess ==
    /\ cli_pc = "access"
    /\ ~file.readable
    /\ cli_pc' = "exited"
    /\ exit_code' = Some(1)
    /\ UNCHANGED <<cliIdleVars, pc, report>>

\* lines 1609-1635: the name of the report is made, the analyzer is
\* constructed and analyze() is called
CliConstruct ==
    /\ cli_pc = "access"
    /\ file.readable
    /\ cli_pc' = "run"
    /\ pc' = "start"
    /\ UNCHANGED <<cliIdleVars, report, exit_code>>

\* lines 1638-1643: generate_improved_report in a text format; of the text
\* the model keeps the format
CliTextReport ==
    /\ cli_pc = "run"
    /\ pc = "done"
    /\ report_format # "json"
    /\ report' = Some([format |-> report_format])
    /\ pc' = "reported"
    /\ UNCHANGED <<cliIdleVars, cli_pc, exit_code>>

\* the end of the __main__ block: the process exits with status 0
CliExit ==
    /\ cli_pc = "run"
    /\ pc = "reported"
    /\ cli_pc' = "exited"
    /\ exit_code' = Some(0)
    /\ UNCHANGED <<cliIdleVars, pc, report>>

NextCli ==
    \/ CliFileNotFound
    \/ CliFileFound
    \/ CliConfirmed
    \/ CliCancelled
    \/ CliNoAccess
    \/ CliConstruct
    \/ CliTextReport
    \/ CliExit
    \/ Next

SpecCli == InitCli /\ [][NextCli]_vars

\* the issues of the latest list whose type is issue_type
OfType(issue_list, issue_type) ==
    SelectSeq(issue_list, LAMBDA i : i.issue_type = issue_type)

(***************************************************************************)
(* C1: the single-page document whose only glyphs are the run "hello"       *)
(* (size 10, black, "Arial", one line).                                     *)
(***************************************************************************)
HelloDoc == HelloDocOf({}, 100, F_Arial)

IsHelloFontSizeIssue(i) ==
    /\ i.issue_type = "FontSize"
    /\ i.severity = "medium"
    /\ i.description.kind = "text_size"
    /\ i.description.size = 100
    /\ i.description.minimum = MIN_FONT_SIZE

\* C1 as claimed: the analysis yields exactly one FontSize issue (medium,
\* naming 10.0pt and 12pt), no Contrast issue and no FontReadability issue.
C1_HelloOneFontSizeIssue ==
    (pc = "done" /\ doc = HelloDoc) =>
        /\ Len(OfType(issues, "FontSize")) = 1
        /\ \A k \in 1..Len(issues) :
              issues[k].issue_type = "FontSize" => IsHelloFontSizeIssue(issues[k])
        /\ OfType(issues, "Contrast") = <<>>
        /\ OfType(issues, "FontReadability") = <<>>

\* C1 as amended: the analysis yields one FontSize issue per glyph, five in
\* all, in glyph order (each medium, naming 10.0pt and 12pt), no Contrast
\* issue and no FontReadability issue.
C1_HelloFontSizeIssuePerGlyph ==
    (pc = "done" /\ doc = HelloDoc) =>
        /\ Len(issues) = Len(HelloText)
        /\ \A k \in 1..Len(issues) :
              /\ IsHelloFontSizeIssue(issues[k])
              /\ issues[k].x = k
              /\ issues[k].page = 1

\* C1 witness: the analysis of the "hello" document has run to its end
C1_Witness == pc = "done" /\ doc = HelloDoc

(***************************************************************************)
(* C4: during the analysis of one page, no glyph is a member of two         *)
(* different lines returned by get_text_line for that page (two lines of    *)
(* the same glyphs count as one line).                                      *)
(***************************************************************************)
GlyphIds(line) == {line.chars[i].id : i \in 1..Len(line.chars)}

\* C4: two cached lines of the page that differ share no glyph
C4_GlyphInOneLine ==
    \A k1, k2 \in DOMAIN line_cache :
        GlyphIds(line_cache[k1]) # GlyphIds(line_cache[k2])
            => GlyphIds(line_cache[k1]) \cap GlyphIds(line_cache[k2]) = {}

(***************************************************************************)
(* C5: when processing one glyph of a page raises (a malformed glyph        *)
(* record), analyze_page completes and only that glyph is skipped: the      *)
(* page's issues are those of its other glyphs.                             *)
(***************************************************************************)
WellFormed(chars) == SelectSeq(chars, LAMBDA c : c.has_y0)

AtPageEnd == pc = "chars" /\ char_idx > Len(doc.pages[page_no].chars)

\* C5: at the end of the page loop the page's issues are those of the page
\* without its malformed glyphs (the glyphs that lack y0)
C5_MalformedGlyphOnlySkipped ==
    AtPageEnd =>
        page_issues = analyze_page(page_no, WellFormed(doc.pages[page_no].chars))

(***************************************************************************)
(* C6: if the page source errors while opening or reading page k,           *)
(* analyze() does not abort: page k contributes no issue and every other    *)
(* page is analysed and its issues appended.                                *)
(***************************************************************************)
RECURSIVE IssuesOfPages(_, _)
\* the issues of pages k..N, an erroring page contributing none
IssuesOfPages(pages, k) ==
    IF k > Len(pages) THEN <<>>
    ELSE (IF pages[k].kind = "ok" THEN analyze_page(k, pages[k].chars) ELSE <<>>)
         \o IssuesOfPages(pages, k + 1)

\* C6: when analyze() of an openable document returns, self.issues holds the
\* issues of every page that raised no error, in page order
C6_PageFailureIsolated ==
    (pc = "done" /\ doc.openable) => issues = IssuesOfPages(doc.pages, 1)

(***************************************************************************)
(* C9: the required contrast of a line is 3.0 exactly when the line's       *)
(* average font size is >= 18, or >= 14 and some glyph of the line has a    *)
(* bold font (by any of the bold terms of is_large_text_by_wcag), and 4.5   *)
(* otherwise.                                                               *)
(***************************************************************************)
LineAnalysed == line_result # None /\ line_result[1].analysed

LineIsBold(chars) ==
    \E i \in 1..Len(chars) :
        \E bold_term \in BoldTerms : Contains(chars[i].fontname, bold_term)

\* C9: the required contrast of an analysed line is 3.0 if the line is large
\* by its average size and its bold flag, and 4.5 if not
C9_RequiredContrastOfLine ==
    LineAnalysed =>
        LET chars == line_result[1].line_chars
            size_sum == SumSizes(chars)
            large == \/ size_sum >= 180 * Len(chars)
                     \/ size_sum >= 140 * Len(chars) /\ LineIsBold(chars)
        IN line_result[1].required_contrast = IF large THEN 30 ELSE 45

(***************************************************************************)
(* C10: for each glyph of an analysed line, a Contrast issue is emitted if  *)
(* and only if the glyph's contrast ratio against the white background is   *)
(* below the line's required contrast; its severity is high when the ratio  *)
(* is below 2.0, medium when it is at least 2.0 and below 3.0, low          *)
(* otherwise.                                                               *)
(***************************************************************************)
RatioOfGlyph(char) == calculate_contrast_ratio(normalize_color(char.color), White)

SeverityClaimed(ratio) ==
    IF RatioBelow(ratio, 20) THEN "high"
    ELSE IF RatioBelow(ratio, 30) THEN "medium"
    ELSE "low"

\* C10: the issues of an analysed line are one Contrast issue per glyph
\* whose ratio is below the required contrast, in glyph order, each with
\* the severity of its ratio
C10_ContrastIssuePerFailingGlyph ==
    LineAnalysed =>
        LET failing == SelectSeq(line_result[1].line_chars,
                           LAMBDA c : RatioBelow(RatioOfGlyph(c),
                                                 line_result[1].required_contrast))
            found == line_result[1].issues
        IN /\ Len(found) = Len(failing)
           /\ \A k \in 1..Len(found) :
                 /\ found[k].issue_type = "Contrast"
                 /\ found[k].x = failing[k].x0
                 /\ found[k].y = failing[k].y0
                 /\ found[k].font_name = failing[k].fontname
                 /\ found[k].severity = SeverityClaimed(RatioOfGlyph(failing[k]))

\* C10 witness: a line was analysed in which one glyph fails the required contrast with
\* a ratio of at least 3.0 and another glyph passes
C10_Witness ==
    /\ LineAnalysed
    /\ \E k \in 1..Len(line_result[1].issues) :
          line_result[1].issues[k].severity = "low"
    /\ Len(line_result[1].issues) < Len(line_result[1].line_chars)

(***************************************************************************)
(* C11: a 12pt regular-weight line whose glyph has foreground gray          *)
(* (0.6, 0.6, 0.6) on white (contrast about 2.85) yields one Contrast issue *)
(* of severity medium for that glyph.                                       *)
(***************************************************************************)
\* the document is a one-line page with exactly one gray glyph
IsGrayLineDoc ==
    /\ doc \in GrayLineDocs
    /\ \E i \in 1..Len(doc.pages[1].chars) : doc.pages[1].chars[i].color = Gray(600)

GrayGlyph ==
    doc.pages[1].chars[CHOOSE i \in 1..Len(doc.pages[1].chars) :
                           doc.pages[1].chars[i].color = Gray(600)]

\* the issues are one Contrast issue, medium, of the gray glyph, its ratio
\* between 2.84 and 2.86
OneMediumContrastIssue ==
    /\ Len(issues) = 1
    /\ issues[1].issue_type = "Contrast"
    /\ issues[1].severity = "medium"
    /\ issues[1].x = GrayGlyph.x0
    /\ issues[1].color = <<600, 600, 600>>
    /\ issues[1].description.required = MIN_CONTRAST_RATIO
    /\ LET ratio == calculate_contrast_ratio(issues[1].color, White)
       IN ratio[1] * 100 >= 284 * ratio[2] /\ ratio[1] * 100 <= 286 * ratio[2]

\* the deduplicated text of the page's line
GrayLineText == remove_duplicate_chars(Strip(JoinTexts(doc.pages[1].chars)))

\* C11 as claimed: the analysis of every such line yields one Contrast issue
\* of severity medium for the gray glyph
C11_GrayGlyphMediumIssue ==
    (pc = "done" /\ IsGrayLineDoc) => OneMediumContrastIssue

\* C11 as amended: it does when the deduplicated text of the line has at
\* least 3 characters
C11_GrayGlyphMediumIssueOnLongLine ==
    (pc = "done" /\ IsGrayLineDoc /\ Len(GrayLineText) >= 3)
        => OneMediumContrastIssue

\* C11 witness: such a line of at least 3 characters has been analysed
C11_Witness ==
    /\ pc = "done"
    /\ IsGrayLineDoc
    /\ Len(GrayLineText) >= 3
    /\ issues # <<>>

(***************************************************************************)
(* C12: the font-size check of a glyph.  A bold glyph of size >= 14 is      *)
(* heading-like and gets a high FontSize issue when its size is < 14;       *)
(* otherwise a glyph that is not large by WCAG and of size < 12 gets a      *)
(* FontSize issue, medium when its size is >= 10 and high when < 10; in     *)
(* every other case there is no FontSize issue.                             *)
(***************************************************************************)
\* the glyph the next AnalyzeChar step handles
CurrentChar == doc.pages[page_no].chars[char_idx]

\* the issues the step from this state to the next appended to page_issues
AppendedIssues == SubSeq(page_issues', Len(page_issues) + 1, Len(page_issues'))

\* the glyph handled by the step reached its own checks: it is not
\* whitespace and the deduplicated text of its line has at least 3 characters
ReachedGlyphChecks ==
    /\ ~IsSkipped(CurrentChar)
    /\ Len(remove_duplicate_chars(Strip(
           get_text_line(line_cache', full_text_cache', page_no,
                         doc.pages[page_no].chars, GetY0(CurrentChar)).line.text)))
         >= 3

GlyphIsBold(char) == \E bold_term \in BoldTerms : Contains(char.fontname, bold_term)

GlyphIsLarge(char) ==
    char.size >= LARGE_SIZE \/ (char.size >= LARGE_BOLD_SIZE /\ GlyphIsBold(char))

\* the severities of the FontSize issues the rule gives the glyph
FontSizeSeveritiesClaimed(char) ==
    IF GlyphIsBold(char) /\ char.size >= 140
    THEN IF char.size < MIN_HEADING_SIZE THEN <<"high">> ELSE <<>>
    ELSE IF ~GlyphIsLarge(char) /\ char.size < MIN_FONT_SIZE
    THEN IF char.size >= 100 THEN <<"medium">> ELSE <<"high">>
    ELSE <<>>

SeveritiesOf(iss) == [i \in 1..Len(iss) |-> iss[i].severity]

\* C12: the FontSize issues a glyph's step appends are those of the rule,
\* for every glyph that reaches the check, and each is the glyph's own
C12_FontSizeRule ==
    [][(pc = "chars" /\ char_idx' = char_idx + 1 /\ ReachedGlyphChecks)
          => /\ SeveritiesOf(OfType(AppendedIssues, "FontSize"))
                  = FontSizeSeveritiesClaimed(CurrentChar)
             /\ \A i \in 1..Len(AppendedIssues) :
                    AppendedIssues[i].issue_type = "FontSize"
                        => /\ AppendedIssues[i].font_size = CurrentChar.size
                           /\ AppendedIssues[i].x = CurrentChar.x0]_vars

\* C12 witness: the issues of a one-glyph page are a high FontSize issue of
\* a 9pt glyph in a 'Bold' font
C12_Witness ==
    /\ pc = "done"
    /\ doc \in FontSizeDocs
    /\ Len(issues) = 1
    /\ issues[1].issue_type = "FontSize"
    /\ issues[1].severity = "high"
    /\ issues[1].font_size = 90
    /\ issues[1].font_name = F_ArialBold

(***************************************************************************)
(* C13: check_font_readability reports a font name that matches both an     *)
(* accessible and a poor-readability font readable, and a name that matches *)
(* neither set not readable with the unknown-font reason; every glyph       *)
(* judged not readable gets a FontReadability issue of severity medium,     *)
(* whatever its size.                                                       *)
(***************************************************************************)
\* the normalized font name contains a font of the set, letter case aside
MatchesFontOf(font_name, fonts) ==
    \E f \in fonts :
        Contains(LowerName(normalize_font_name(font_name)), LowerName(f))

\* the verdicts of check_font_readability on a font name
ReadabilityVerdictRight(font_name) ==
    /\ (MatchesFontOf(font_name, ACCESSIBLE_FONTS)
          /\ MatchesFontOf(font_name, POOR_READABILITY_FONTS))
        => check_font_readability(font_name).readable
    /\ (~MatchesFontOf(font_name, ACCESSIBLE_FONTS)
          /\ ~MatchesFontOf(font_name, POOR_READABILITY_FONTS))
        => /\ ~check_font_readability(font_name).readable
           /\ check_font_readability(font_name).kind = "unknown"

\* the FontReadability issues are one medium issue of the glyph if it is
\* judged not readable, and none if it is judged readable
ReadabilityIssueRight(char, found) ==
    IF check_font_readability(char.fontname).readable
    THEN found = <<>>
    ELSE /\ Len(found) = 1
         /\ found[1].severity = "medium"
         /\ found[1].font_name = char.fontname
         /\ found[1].font_size = char.size
         /\ found[1].x = char.x0

\* C13: on every glyph that reaches the check, the verdict on its font name
\* and the FontReadability issue of its step are as stated
C13_ReadabilityRule ==
    [][(pc = "chars" /\ char_idx' = char_idx + 1 /\ ReachedGlyphChecks)
          => /\ ReadabilityVerdictRight(CurrentChar.fontname)
             /\ ReadabilityIssueRight(CurrentChar,
                    OfType(AppendedIssues, "FontReadability"))]_vars

\* C13 witness: an 18pt glyph in a font of neither set has got its medium
\* FontReadability issue with the unknown-font reason
C13_Witness ==
    /\ pc = "done"
    /\ doc \in ReadabilityDocs
    /\ Len(issues) = 1
    /\ issues[1].issue_type = "FontReadability"
    /\ issues[1].severity = "medium"
    /\ issues[1].font_size = 180
    /\ issues[1].font_name = F_Foo
    /\ issues[1].description.kind = "unknown"

(***************************************************************************)
(* C14: normalize_color returns, for every input colour (a scalar, a 1-, 3- *)
(* or 4-tuple, an absent colour or any other shape), a triple whose three   *)
(* components each lie in [0, 1].                                           *)
(***************************************************************************)
InUnitRange(color) ==
    /\ Len(color) = 3
    /\ \A k \in 1..3 : 0 <= color[k] /\ color[k] <= 1000

\* C14: the colour that normalize_color gave for the glyph of an analysed
\* line, kept in the glyph's Contrast issue, lies in [0, 1] in each component
C14_NormalizedInUnitRange ==
    \A i \in 1..Len(page_issues) :
        page_issues[i].issue_type = "Contrast"
            => /\ InUnitRange(page_issues[i].color)
               /\ \E j \in 1..Len(doc.pages[page_no].chars) :
                      page_issues[i].color
                          = normalize_color(doc.pages[page_no].chars[j].color)

(***************************************************************************)
(* C15: calculate_contrast_ratio(c1, c2) is at least 1.0 for every pair of  *)
(* colour triples the engine passes to it, the outputs of normalize_color,  *)
(* and is 1.0 when c1 = c2.                                                 *)
(***************************************************************************)
\* the ratio is >= 1.0
RatioAtLeastOne(ratio) ==
    IF ratio[2] > 0 THEN ratio[1] >= ratio[2] ELSE ratio[1] <= ratio[2]

\* C15: the ratio of every analysed glyph's colour against its background,
\* and against itself, is at least 1.0, and is 1.0 for equal colours
C15_ContrastRatioAtLeastOne ==
    \A i \in 1..Len(page_issues) :
        page_issues[i].issue_type = "Contrast"
            => /\ RatioAtLeastOne(calculate_contrast_ratio(
                      page_issues[i].color, page_issues[i].background_color))
               /\ page_issues[i].description.contrast >= 10
               /\ calculate_contrast_ratio(page_issues[i].color,
                                           page_issues[i].color)[1]
                    = calculate_contrast_ratio(page_issues[i].color,
                                               page_issues[i].color)[2]

(***************************************************************************)
(* C16: when the input path does not exist or is not readable, the process  *)
(* exits with status 1 and analyze() is never started: no analyzer is       *)
(* constructed and no report is written.                                    *)
(***************************************************************************)
\* C16: with such a path there is never an analyzer nor a report, and the
\* status of the exited process is 1
C16_BadPathExitsWithOne ==
    (cli_pc # "off" /\ (~file.exists \/ ~file.readable))
        => /\ pc = "idle"
           /\ report = None
           /\ cli_pc = "exited" => exit_code = Some(1)

(***************************************************************************)
(* C17: in the JSON report every set-valued field is a list sorted          *)
(* ascending, 'issues' is the first min(len(issues), 1000) issues in order, *)
(* 'color_issues' is the first min(len(color_issues), 100) colour issues,   *)
(* and summary.total_issues is the full len(issues).                        *)
(***************************************************************************)
\* the list holds the members of the set, each once, in ascending order
IsSortedListOf(items, s) ==
    /\ {items[i] : i \in 1..Len(items)} = s
    /\ \A i \in 1..(Len(items) - 1) : items[i] < items[i + 1]

\* the list is the first min(len(all), n) members of all, in order
IsFirstOf(items, all, n) ==
    /\ Len(items) = Min2(Len(all), n)
    /\ \A i \in 1..Len(items) : items[i] = all[i]

PagesOf(issue_list) == {issue_list[i].page : i \in 1..Len(issue_list)}

TypesOf(issue_list) == {issue_list[i].issue_type : i \in 1..Len(issue_list)}

JsonReported == report # None /\ report_format = "json"

\* C17: the JSON report generated after analyze() lists the pages of the
\* issues, and those of each issue type, in ascending order, holds the first
\* IssuesInJson issues and ColorIssuesInJson colour issues, and counts
\* every issue
C17_JsonReportShape ==
    JsonReported =>
        /\ IsSortedListOf(report[1].summary.pages_affected, PagesOf(issues))
        /\ DOMAIN report[1].summary.by_type = TypesOf(issues)
        /\ \A t \in DOMAIN report[1].summary.by_type :
               IsSortedListOf(report[1].summary.by_type[t].pages_affected,
                              PagesOf(OfType(issues, t)))
        /\ IsFirstOf(report[1].issues, issues, IssuesInJson)
        /\ IsFirstOf(report[1].color_issues, color_issues, ColorIssuesInJson)
        /\ report[1].summary.total_issues = Len(issues)

\* C17 witness: a report of issues on several pages, with more issues and
\* more colour issues than the arrays of the report hold
C17_Witness ==
    /\ JsonReported
    /\ Len(report[1].summary.pages_affected) >= 2
    /\ Len(issues) > IssuesInJson
    /\ Len(report[1].issues) = IssuesInJson
    /\ Len(color_issues) > ColorIssuesInJson
    /\ Len(report[1].color_issues) = ColorIssuesInJson

(***************************************************************************)
(* C18: get_text_line(page, y) returns exactly the page's glyphs whose y0   *)
(* lies within the tolerance band of the y of this call (|y0 - y| <         *)
(* tolerance), sorted ascending by x0, with the text their concatenation in *)
(* that order; this holds for every call in any sequence of calls on the    *)
(* same page, the calls answered from the cache included.                   *)
(***************************************************************************)
\* the line is the glyphs of chars in the band of y, each once, ascending by
\* x0, and its text is their texts joined in that order
IsLineOfBand(line, chars, y) ==
    /\ {line.chars[i].id : i \in 1..Len(line.chars)}
         = {chars[j].id : j \in {k \in 1..Len(chars) :
                                     Abs(chars[k].y0 - y) < Tolerance}}
    /\ \A i \in 1..Len(line.chars) : \E j \in 1..Len(chars) : line.chars[i] = chars[j]
    /\ \A i, j \in 1..Len(line.chars) : i < j =>
           /\ line.chars[i].id # line.chars[j].id
           /\ line.chars[i].x0 <= line.chars[j].x0
    /\ line.text = JoinTexts(line.chars)

\* every glyph of the page has its y0
PageWellFormed(chars) == \A j \in 1..Len(chars) : chars[j].has_y0

\* C18: at every point of the analysis of a page whose glyphs all have y0, a
\* call of get_text_line with the y0 of any glyph of the page returns the
\* line of that y0's band
C18_LineIsBandOfCall ==
    (pc = "chars" /\ PageWellFormed(doc.pages[page_no].chars))
        => \A j \in 1..Len(doc.pages[page_no].chars) :
               IsLineOfBand(
                   get_text_line(line_cache, full_text_cache, page_no,
                                 doc.pages[page_no].chars,
                                 doc.pages[page_no].chars[j].y0).line,
                   doc.pages[page_no].chars,
                   doc.pages[page_no].chars[j].y0)

(***************************************************************************)
(* C19: the line cache is page-scoped.  In analyze(), line_cache and        *)
(* full_text_cache are empty when the analysis of each page begins, so at   *)
(* every point of the run every cache entry was computed from the page      *)
(* being analysed and no lookup returns a line built from an earlier page.  *)
(***************************************************************************)
\* the cache entry of the key is a line of glyphs of the page, stored under
\* the page, with its text in full_text_cache
EntryIsOfPage(key, page_num, chars) ==
    /\ key[1] = page_num
    /\ key \in DOMAIN line_cache
    /\ key \in DOMAIN full_text_cache
    /\ \A i \in 1..Len(line_cache[key].chars) :
           \E j \in 1..Len(chars) : line_cache[key].chars[i] = chars[j]
    /\ full_text_cache[key] = line_cache[key].text

\* C19: the caches are empty when the first glyph of a page is about to be
\* handled, and every entry of them is a line of the page being analysed
C19_CachePageScoped ==
    pc = "chars" =>
        /\ char_idx = 1 => (line_cache = EmptyDict /\ full_text_cache = EmptyDict)
        /\ \A key \in (DOMAIN line_cache) \cup (DOMAIN full_text_cache) :
               EntryIsOfPage(key, page_no, doc.pages[page_no].chars)

\* C19 witness: a later page is being analysed, lines of it are cached, and
\* a page before it had glyphs
C19_Witness ==
    /\ pc = "chars"
    /\ page_no >= 2
    /\ line_cache # EmptyDict
    /\ \E k \in 1..(page_no - 1) :
           doc.pages[k].kind = "ok" /\ doc.pages[k].chars # <<>>

(***************************************************************************)
(* C20: within one analyze_page call the line-level contrast analysis runs  *)
(* at most once per distinct rounded (2-decimal) y0.  After the first       *)
(* non-whitespace glyph with a given rounded y0 has been handled, no later  *)
(* glyph with the same rounded y0 triggers analyze_text_line_contrast       *)
(* again, and the processed set is fresh (empty) for every page.            *)
(***************************************************************************)
\* the rounded y0 of the non-whitespace glyphs of the page before glyph i
HandledLines(chars, i) ==
    {Round2(GetY0(chars[j])) : j \in {k \in 1..(i - 1) : ~IsSkipped(chars[k])}}

\* C20: the step of a glyph calls analyze_text_line_contrast only if no
\* non-whitespace glyph before it on the page has its rounded y0, the
\* processed set is the rounded y0 of the glyphs handled, and it is empty
\* when a page begins
C20_LineAnalysedOncePerRoundedY ==
    [][/\ (pc = "chars" /\ char_idx' = char_idx + 1)
            => /\ line_result' # None
                   => Round2(GetY0(CurrentChar))
                          \notin HandledLines(doc.pages[page_no].chars, char_idx)
               /\ processed_lines = HandledLines(doc.pages[page_no].chars, char_idx)
               /\ processed_lines'
                    = HandledLines(doc.pages[page_no].chars, char_idx + 1)
       /\ (pc = "page" /\ pc' = "chars") => processed_lines' = {}]_vars

\* C20 witness: the second of two non-whitespace glyphs with different y0
\* and the same rounded y0 has been handled without a line analysis, after
\* the first one's line was analysed
C20_Witness ==
    /\ pc = "chars"
    /\ char_idx = 3
    /\ ~IsSkipped(doc.pages[page_no].chars[1])
    /\ ~IsSkipped(doc.pages[page_no].chars[2])
    /\ doc.pages[page_no].chars[1].y0 # doc.pages[page_no].chars[2].y0
    /\ Round2(GetY0(doc.pages[page_no].chars[1]))
         = Round2(GetY0(doc.pages[page_no].chars[2]))
    /\ processed_lines = {Round2(GetY0(doc.pages[page_no].chars[1]))}
    /\ line_result = None
    /\ OfType(page_issues, "Contrast") # <<>>

(***************************************************************************)
(* C22: whitespace-only (or empty-text) glyphs are skipped by the page      *)
(* scan: no issue of any type emitted by analyze_page has a whitespace-only *)
(* glyph as its triggering glyph (its x/y origin), and a whitespace-only    *)
(* glyph never causes a line to be reconstructed or contrast-analysed.      *)
(***************************************************************************)
\* the issue carries the origin, the font and the size of the glyph
IssueFromGlyph(issue, char) ==
    /\ issue.x = char.x0
    /\ issue.y = GetY0(char)
    /\ issue.font_name = char.fontname
    /\ issue.font_size = char.size

\* the issue stems from a glyph of the page that shows more than whitespace
FromVisibleGlyph(issue, chars) ==
    \E j \in 1..Len(chars) :
        ~IsSkipped(chars[j]) /\ IssueFromGlyph(issue, chars[j])

\* the step of a whitespace-only glyph reconstructs and analyses no line
WhitespaceStepIdle ==
    IsSkipped(CurrentChar)
        => /\ line_cache' = line_cache
           /\ full_text_cache' = full_text_cache
           /\ processed_lines' = processed_lines
           /\ line_result' = None
           /\ page_issues' = page_issues
           /\ color_issues' = color_issues

\* C22: the step of a whitespace-only glyph leaves the lines and the issues
\* alone, and every issue a step appends stems from a glyph that is not
\* whitespace-only
C22_WhitespaceGlyphsSkipped ==
    [][(pc = "chars" /\ char_idx' = char_idx + 1)
          => /\ WhitespaceStepIdle
             /\ \A i \in 1..Len(AppendedIssues) :
                    FromVisibleGlyph(AppendedIssues[i],
                                     doc.pages[page_no].chars)]_vars

(***************************************************************************)
(* C23: no issue of any type (FontSize, FontReadability or Contrast) is     *)
(* emitted for a glyph whose reconstructed line has normalized (stripped,   *)
(* deduplicated) text that is empty or shorter than 3 characters.           *)
(***************************************************************************)
\* the normalized text of the line get_text_line gives the glyph after the
\* step
NormalizedLineOf(char) ==
    remove_duplicate_chars(Strip(
        get_text_line(line_cache', full_text_cache', page_no,
                      doc.pages[page_no].chars, GetY0(char)).line.text))

\* C23: every issue a step appends stems from glyphs whose line has a
\* normalized text of at least 3 characters
C23_NoIssueOnShortLine ==
    [][(pc = "chars" /\ char_idx' = char_idx + 1)
          => \A i \in 1..Len(AppendedIssues) :
                 \A j \in 1..Len(doc.pages[page_no].chars) :
                     IssueFromGlyph(AppendedIssues[i], doc.pages[page_no].chars[j])
                         => Len(NormalizedLineOf(doc.pages[page_no].chars[j])) >= 3]_vars

(***************************************************************************)
(* C24: a ColorIssue is never created independently: at every point of a    *)
(* run each entry of color_issues was appended together with a Contrast     *)
(* issue for the same page and glyph position, so len(color_issues) is at   *)
(* most the number of Contrast issues in the issue list, and an entry is    *)
(* appended exactly when that Contrast issue's colour falls in a named      *)
(* bucket (the extra ratio < 4.5 condition never excludes one).             *)
(***************************************************************************)
\* the issues found so far: those of the pages done and those of the page
\* being scanned
FoundIssues == issues \o page_issues

\* the Contrast issues found so far whose colour has a name
NamedContrastIssues ==
    SelectSeq(OfType(FoundIssues, "Contrast"),
              LAMBDA issue : identify_problematic_color(issue.color) # NoColorName)

\* the entry goes with the Contrast issue: the same page, position, colour,
\* size and bucket
EntryOfIssue(entry, issue) ==
    /\ entry.page = issue.page
    /\ entry.position = <<issue.x, issue.y>>
    /\ entry.color = issue.color
    /\ entry.font_size = issue.font_size
    /\ entry.color_name = identify_problematic_color(issue.color)
    /\ entry.color_name = issue.description.color_name

SmallTextIssuesOnly(issue_list) ==
    \A i \in 1..Len(issue_list) :
        issue_list[i].issue_type = "FontSize"
            => /\ issue_list[i].font_size < MIN_FONT_SIZE
               /\ issue_list[i].description.kind = "text_size"

\* C25: the step of a glyph that reaches its checks appends one FontSize
\* issue if the glyph's size is below 12pt and none otherwise, and the
\* issues found hold no FontSize issue of 12pt or more and no heading issue
C25_FontSizeIssueIffBelow12 ==
    [][/\ (pc = "chars" /\ char_idx' = char_idx + 1 /\ ReachedGlyphChecks)
            => Len(OfType(AppendedIssues, "FontSize"))
                   = IF CurrentChar.size < MIN_FONT_SIZE THEN 1 ELSE 0
       /\ SmallTextIssuesOnly(issues')
       /\ SmallTextIssuesOnly(page_issues')]_vars

\* C25 witness: the run over a page with one 11.9pt glyph of a 'Black' font
\* ended with its FontSize issue, of severity medium
C25_Witness ==
    /\ pc = "done"
    /\ doc \in FontSizeDocs
    /\ Len(issues) = 1
    /\ issues[1].issue_type = "FontSize"
    /\ issues[1].severity = "medium"
    /\ issues[1].font_size = 119
    /\ issues[1].font_name = F_ArialBlack

(***************************************************************************)
(* C27: after analyze() on a fresh analyzer over an N-page document, the    *)
(* issue list is ordered by page: page numbers along the list are           *)
(* non-decreasing, every issue's page is in 1..N, and the issues of page k  *)
(* are exactly what analyze_page returned for page k, in that order.        *)
(***************************************************************************)
\* the issues of the list that are of page k, in the order of the list
IssuesOfPage(issue_list, k) ==
    SelectSeq(issue_list, LAMBDA issue : issue.page = k)

\* what analyze_page returned for page k: the pages before page_no are
\* those analyze() has called it for
ReturnedForPage(k) ==
    IF k < page_no /\ doc.pages[k].kind = "ok"
    THEN analyze_page(k, doc.pages[k].chars)
    ELSE <<>>

\* C27: in every state of a run on a fresh analyzer, and so when analyze()
\* has returned, the page numbers along self.issues do not decrease, are
\* pages of the document, and the issues of every page are those
\* analyze_page returned for it
C27_IssuesInPageOrder ==
    /\ \A i \in 1..(Len(issues) - 1) : issues[i].page <= issues[i + 1].page
    /\ \A i \in 1..Len(issues) : issues[i].page \in 1..Len(doc.pages)
    /\ \A k \in 1..Len(doc.pages) : IssuesOfPage(issues, k) = ReturnedForPage(k)

\* C27 witness: analyze() returned with issues of two pages
C27_Witness ==
    /\ pc = "done"
    /\ page_no = Len(doc.pages) + 1
    /\ \E i, j \in 1..Len(issues) : issues[i].page = 1 /\ issues[j].page = 3

(***************************************************************************)
(* C28: analyze() is repeatable on one analyzer: after any number of        *)
(* analyze() calls on the same unchanged document, issues and color_issues  *)
(* hold each finding of the document exactly once (the same lists as after  *)
(* the first call).                                                         *)
(***************************************************************************)
RECURSIVE ColorIssuesOfPages(_, _)
\* the entries of color_issues of pages k..N, an erroring page giving none
ColorIssuesOfPages(pages, k) ==
    IF k > Len(pages) THEN <<>>
    ELSE (IF pages[k].kind = "ok"
          THEN AnalyzeCharsFrom(NewPageState(<<>>), k, pages[k].chars, 1).color_issues
          ELSE <<>>)
         \o ColorIssuesOfPages(pages, k + 1)

\* the pages the call that returned has analysed
PagesAnalysed == SubSeq(doc.pages, 1, IF page_no = 0 THEN 0 ELSE page_no - 1)

\* C28: whenever a call of analyze() has returned, issues and color_issues
\* are the findings of one call
C28_AnalyzeRepeatable ==
    pc = "done"
        => /\ issues = IssuesOfPages(PagesAnalysed, 1)
           /\ color_issues = ColorIssuesOfPages(PagesAnalysed, 1)

(***************************************************************************)
(* C29: a line classified as large text (required contrast 3.0) never       *)
(* produces a Contrast issue of severity low: every Contrast issue on such  *)
(* a line is high or medium, and low-severity Contrast issues occur only on *)
(* non-large lines with 3.0 <= ratio < 4.5.                                 *)
(***************************************************************************)
\* the ratio of the colours the Contrast issue carries
RatioOfIssue(issue) == calculate_contrast_ratio(issue.color, issue.background_color)

\* the Contrast issue is of a line classified as large text
OnLargeLine(issue) == issue.description.kind = "large_text"

SeverityFitsLine(issue) ==
    /\ OnLargeLine(issue)
           => /\ issue.severity \in {"high", "medium"}
              /\ issue.description.required = MIN_CONTRAST_LARGE
              /\ RatioBelow(RatioOfIssue(issue), MIN_CONTRAST_LARGE)
    /\ issue.severity = "low"
           => /\ ~OnLargeLine(issue)
              /\ issue.description.required = MIN_CONTRAST_RATIO
              /\ ~RatioBelow(RatioOfIssue(issue), MIN_CONTRAST_LARGE)
              /\ RatioBelow(RatioOfIssue(issue), MIN_CONTRAST_RATIO)

\* C29: the issues of the line just analysed are marked as the line was
\* classified, and every Contrast issue found so far on a large line is high
\* or medium, every low one on a line that is not large with a ratio from
\* 3.0 to below 4.5
C29_NoLowIssueOnLargeLine ==
    /\ LineAnalysed
           => \A i \in 1..Len(line_result[1].issues) :
                  /\ OnLargeLine(line_result[1].issues[i])
                         = line_result[1].is_large_wcag
                  /\ line_result[1].required_contrast
                         = IF line_result[1].is_large_wcag
                           THEN MIN_CONTRAST_LARGE ELSE MIN_CONTRAST_RATIO
    /\ \A i \in 1..Len(FoundIssues) :
           FoundIssues[i].issue_type = "Contrast"
               => SeverityFitsLine(FoundIssues[i])

\* C29 witness: a run ended with a medium Contrast issue of a 14pt 'Bold'
\* line, a large one
C29_Witness ==
    /\ pc = "done"
    /\ doc \in LargeLineDocs
    /\ Len(issues) = 1
    /\ OnLargeLine(issues[1])
    /\ issues[1].severity = "medium"
    /\ issues[1].font_size = LARGE_BOLD_SIZE

(***************************************************************************)
(* C30: GitHub API tests: in every test that creates the test repository    *)
(* (test_create_repo, test_update_repo), the repository is deleted          *)
(* (teardown's DELETE request is issued) before the test ends, whatever the *)
(* outcome of the test's assertions; and test_get_user, which creates       *)
(* nothing, never issues the DELETE.                                        *)
(***************************************************************************)
TestEnded == test_pc \in {"passed", "failed"}

DeleteIssued ==
    \E i \in 1..Len(requests_log) : requests_log[i][1] = "DELETE"

\* the POST of the test was answered 201 Created
RepositoryCreated ==
    \E i \in 1..Len(requests_log) : requests_log[i] = <<"POST", 201>>

\* C30: a run of test_create_repo or test_update_repo that has created the
\* repository has issued the DELETE when it ends, passed or failed, and
\* test_get_user issues no DELETE
C30_RepositoryDeletedBeforeTestEnds ==
    /\ (test_name \in {"test_create_repo", "test_update_repo"}
            /\ RepositoryCreated /\ TestEnded) => DeleteIssued
    /\ test_name = "test_get_user" => ~DeleteIssued

====
